---- MODULE Spec2Model ----
(***************************************************************************)
(* Model of the Notion synchronisation engine of GBF-StorySolver-CN:       *)
(*   lib/notion/sync.py      cache, SyncContext, page/database adapter     *)
(*   lib/notion/database.py  cast / voice dataset upsert                   *)
(*   lib/notion/parsers.py   media URL normalisation, voice table parser   *)
(*   lib/notion/render.py    text splitter, story renderer                 *)
(*   notion_upload.py        the run (main) over the local content tree    *)
(*                                                                         *)
(* The remote store is a tree of containers.  Container i is remote[i];    *)
(* its children are an ordered listing of blocks, child pages, child       *)
(* databases (or, for a database, rows).  Python's Optional is a sequence  *)
(* of length 0 (None) or 1.                                                *)
(***************************************************************************)
EXTENDS Integers, Sequences, FiniteSets, TLC

VARIABLES
    remote,     \* the remote store: sequence of containers, index = id
    cache,      \* SyncContext._cache (in memory)
    disk,       \* content of the cache file
    mode,       \* SyncContext.mode: "diff" | "force"
    dry_run,    \* SyncContext.dry_run
    pc,         \* position of the process / of the run
    last,       \* observation of the handler that ran last
    hist        \* observations kept across handlers

vars == <<remote, cache, disk, mode, dry_run, pc, last, hist>>

(***************************************************************************)
(* Bounds of the model.                                                    *)
(***************************************************************************)
\* containers the remote store may hold (the root included)
MaxNodes == 4
\* entries one listing may hold
MaxChildren == 3
\* the provider's page size in the model (the code asks for 100 per page)
PageSize == 2
\* blocks per append request in the model (the code sends 80 per request)
ChunkSize == 2

None == <<>>
Some(v) == <<v>>

Min(a, b) == IF a < b THEN a ELSE b

\* dict.get(key) / dict[key] = value on a finite map
MapGet(m, k) == IF k \in DOMAIN m THEN Some(m[k]) ELSE None
MapPut(m, k, v) == [x \in (DOMAIN m) \cup {k} |-> IF x = k THEN v ELSE m[x]]
MapDel(m, k) == [x \in (DOMAIN m) \ {k} |-> m[x]]
EmptyMap == [x \in {} |-> 0]

\* the one element of a singleton set: Only({e(x) : x \in {v}}) is e(v) with v
\* computed once
Only(S) == CHOOSE x \in S : TRUE

RECURSIVE Concat(_)
Concat(ss) == IF ss = <<>> THEN <<>> ELSE Head(ss) \o Concat(Tail(ss))

(***************************************************************************)
(* Text: a sequence of tokens.  A token is one character, or a word that   *)
(* contains no white space ("block", "paragraph", ...).                    *)
(***************************************************************************)
IsSpace(c) == c \in {" ", "\t"}

RECURSIVE SplitLines(_, _)
\* str.split("\n"): cur is the line being collected
SplitLines(text, cur) ==
    IF text = <<>> THEN <<cur>>
    ELSE IF Head(text) = "\n" THEN <<cur>> \o SplitLines(Tail(text), <<>>)
    ELSE SplitLines(Tail(text), Append(cur, Head(text)))

RECURSIVE RStrip(_)
RStrip(ln) ==
    IF ln = <<>> THEN <<>>
    ELSE IF IsSpace(ln[Len(ln)]) THEN RStrip(SubSeq(ln, 1, Len(ln) - 1))
    ELSE ln

RECURSIVE ReplaceCR(_)
\* text.replace("\r\n", "\n").replace("\r", "\n")
ReplaceCR(text) ==
    IF text = <<>> THEN <<>>
    ELSE IF Head(text) = "\r"
         THEN IF Len(text) >= 2 /\ text[2] = "\n"
              THEN <<"\n">> \o ReplaceCR(Tail(Tail(text)))
              ELSE <<"\n">> \o ReplaceCR(Tail(text))
         ELSE <<Head(text)>> \o ReplaceCR(Tail(text))

RECURSIVE CapBlankRuns(_, _)
\* the loop of normalize_text_for_diff: keeps the first two lines of a blank run
CapBlankRuns(lines, blank_run) ==
    IF lines = <<>> THEN <<>>
    ELSE IF Head(lines) = <<>>
         THEN (IF blank_run + 1 <= 2 THEN <<Head(lines)>> ELSE <<>>)
              \o CapBlankRuns(Tail(lines), blank_run + 1)
         ELSE <<Head(lines)>> \o CapBlankRuns(Tail(lines), 0)

RECURSIVE PopBlank(_)
PopBlank(out) ==
    IF out # <<>> /\ out[Len(out)] = <<>> THEN PopBlank(SubSeq(out, 1, Len(out) - 1))
    ELSE out

RECURSIVE JoinLines(_)
JoinLines(out) ==
    IF out = <<>> THEN <<>>
    ELSE IF Len(out) = 1 THEN out[1]
    ELSE out[1] \o <<"\n">> \o JoinLines(Tail(out))

normalize_text_for_diff(text) ==
    IF text = <<>> THEN <<>>
    ELSE LET lines == SplitLines(ReplaceCR(text), <<>>)
             stripped == [i \in 1..Len(lines) |-> RStrip(lines[i])]
         IN JoinLines(PopBlank(CapBlankRuns(stripped, 0)))

\* a block built by render.py: {"object": "block", "type": t, t: {"rich_text": [..content..]}}
Block(t, content) == [type |-> t, content |-> content]

\* the strings _collect_text_nodes finds in one block, in dict order
collect_text_nodes(b) == <<"block", b.type>> \o b.content

RECURSIVE blocks_plain_text(_)
blocks_plain_text(blocks) ==
    IF blocks = <<>> THEN <<>>
    ELSE collect_text_nodes(Head(blocks)) \o <<"\n">> \o blocks_plain_text(Tail(blocks))

\* a token that stands for a code point UTF-8 cannot encode (a lone surrogate)
Surrogate == "U+D800"
\* text.encode("utf-8", errors="ignore")
encode_ignore(text) == SelectSeq(text, LAMBDA c : c # Surrogate)

\* SHA-1 is taken to be collision free: the digest stands for the bytes hashed
sha1_text(text) == <<"sha1">> \o encode_ignore(text)

desired_hash_of(blocks) == sha1_text(normalize_text_for_diff(blocks_plain_text(blocks)))

(***************************************************************************)
(* The remote store and its API (notion_client).  A handler threads a      *)
(* world w = [remote, cache, calls, failAt, ...] through its remote calls: *)
(* calls is the sequence of requests issued so far, and the request        *)
(* number failAt (0: none) fails with a transport error.                   *)
(***************************************************************************)
Containers == {"child_page", "child_database"}

\* one entry of a listing: a block, a child container (id: its container) or a row
Entry(t, id, title, content) == [type |-> t, id |-> id, title |-> title, content |-> content]
BlockEntry(b) == Entry(b.type, 0, "", b.content)

Node(parent, t, title) ==
    [parent |-> parent, type |-> t, title |-> title, alive |-> TRUE, children |-> <<>>]

\* the page the run is given (NOTION_ROOT_PAGE_ID)
RootId == 1
EmptyRemote == <<Node(0, "child_page", "root")>>

RECURSIVE Live(_, _)
\* a container can be read and written while neither it nor an ancestor is deleted
Live(rem, id) ==
    /\ id \in 1..Len(rem)
    /\ rem[id].alive
    /\ (rem[id].parent = 0 \/ Live(rem, rem[id].parent))

\* fatal: the process dies at request failAt, so that request and all after it do
\* nothing; trace: the requests issued for each record of a dataset sync; sent: the
\* children of each append request
World(rem, c, failAt) ==
    [remote |-> rem, cache |-> c, calls |-> <<>>, failAt |-> failAt,
     fatal |-> FALSE, trace |-> <<>>, log |-> <<>>, failed |-> 0, sent |-> <<>>]

Request(op, id, cursor) == [op |-> op, id |-> id, cursor |-> cursor]
\* the next request is one that fails
Fails(w) ==
    IF w.fatal THEN w.failAt > 0 /\ Len(w.calls) + 1 >= w.failAt
    ELSE Len(w.calls) + 1 = w.failAt
Called(w, op, id, cursor) == [w EXCEPT !.calls = Append(@, Request(op, id, cursor))]

\* a request got an error from the remote store
Failed(w) == [w EXCEPT !.failed = @ + 1]

\* log(msg) of notion_upload.py: what the message reports and the count it gives
Logged(w, msg, n) == [w EXCEPT !.log = Append(@, [msg |-> msg, n |-> n])]

WriteOps == {"create", "create_db", "create_row", "update_row", "delete", "append"}
Writes(calls) == {i \in 1..Len(calls) : calls[i].op \in WriteOps}

Result(w, raised, ret) == [w |-> w, raised |-> raised, ret |-> ret]

\* one page of a listing: cursor 0 is the start, next_cursor the offset reached
ListPage(listing, cursor) ==
    LET n == Len(listing)
        more == cursor + PageSize < n
    IN [results |-> SubSeq(listing, cursor + 1, Min(cursor + PageSize, n)),
        has_more |-> more,
        next_cursor |-> IF more THEN cursor + PageSize ELSE 0]

\* client.blocks.children.list(block_id, page_size, start_cursor)
blocks_children_list(w, block_id, cursor) ==
    LET w1 == Called(w, "list", block_id, cursor)
    IN IF Fails(w) \/ ~Live(w.remote, block_id)
       THEN Result(Failed(w1), TRUE, None)
       ELSE Result(w1, FALSE, ListPage(w.remote[block_id].children, cursor))

RemoveChild(listing, id) == SelectSeq(listing, LAMBDA e : e.id # id)

\* client.blocks.delete(block_id) of a child page or a child database
blocks_delete(w, id) ==
    LET w1 == Called(w, "delete", id, 0)
    IN IF Fails(w) \/ ~Live(w.remote, id)
       THEN Result(Failed(w1), TRUE, None)
       ELSE LET p == w.remote[id].parent
                rem == [w.remote EXCEPT ![id].alive = FALSE,
                                        ![p].children = RemoveChild(@, id)]
            IN Result([w1 EXCEPT !.remote = rem], FALSE, None)

\* client.pages.create(parent={"page_id": ..}) / client.databases.create(..)
create_container(w, op, parent_id, t, title) ==
    LET w1 == Called(w, op, parent_id, 0)
        id == Len(w.remote) + 1
    IN IF Fails(w) \/ ~Live(w.remote, parent_id)
       THEN Result(Failed(w1), TRUE, None)
       ELSE LET rem == Append([w.remote EXCEPT ![parent_id].children =
                                   Append(@, Entry(t, id, title, <<>>))],
                              Node(parent_id, t, title))
            IN Result([w1 EXCEPT !.remote = rem], FALSE, id)

pages_create(w, parent_id, title) ==
    create_container(w, "create", parent_id, "child_page", title)

\* client.blocks.children.append(block_id, children)
blocks_children_append(w, page_id, chunk) ==
    LET w1 == [Called(w, "append", page_id, 0) EXCEPT !.sent = Append(@, chunk)]
    IN IF Fails(w) \/ ~Live(w.remote, page_id)
       THEN Result(Failed(w1), TRUE, None)
       ELSE LET add == [i \in 1..Len(chunk) |-> BlockEntry(chunk[i])]
                rem == [w.remote EXCEPT ![page_id].children = @ \o add]
            IN Result([w1 EXCEPT !.remote = rem], FALSE, None)

(***************************************************************************)
(* Page operations of lib/notion/sync.py.                                  *)
(***************************************************************************)
RECURSIVE FirstTitled(_, _)
\* the for loop of get_child_block_by_title over one page of results
FirstTitled(results, title) ==
    IF results = <<>> THEN None
    ELSE IF Head(results).type \in Containers /\ Head(results).title = title
         THEN Some(Head(results))
         ELSE FirstTitled(Tail(results), title)

\* a lookup that reads the first page of the listing only
get_child_first_page(w, parent_id, title, cursor) ==
    LET r == blocks_children_list(w, parent_id, cursor)
    IN IF r.raised THEN Result(r.w, TRUE, None)
       ELSE Result(r.w, FALSE, FirstTitled(r.ret.results, title))

RECURSIVE get_child_loop(_, _, _, _)
get_child_loop(w, parent_id, title, cursor) ==
    LET r == blocks_children_list(w, parent_id, cursor)
    IN IF r.raised THEN Result(r.w, TRUE, None)
       ELSE LET hit == FirstTitled(r.ret.results, title)
            IN IF hit # None THEN Result(r.w, FALSE, hit)
               ELSE IF ~r.ret.has_more THEN Result(r.w, FALSE, None)
               ELSE get_child_loop(r.w, parent_id, title, r.ret.next_cursor)

get_child_block_by_title(w, parent_id, title) == get_child_loop(w, parent_id, title, 0)

ensure_page(w, parent_id, title) ==
    LET existing == get_child_block_by_title(w, parent_id, title)
    IN IF existing.raised THEN existing
       ELSE IF existing.ret # None THEN Result(existing.w, FALSE, existing.ret[1].id)
       ELSE pages_create(existing.w, parent_id, title)

RECURSIVE clear_results(_, _, _, _)
\* the for loop of clear_page_blocks over one page of results: a failed delete is
\* swallowed; gone collects the positions (in the listing) of the blocks deleted
clear_results(w, results, pos, gone) ==
    IF results = <<>> THEN [w |-> w, gone |-> gone]
    ELSE IF Head(results).type \in Containers
         THEN clear_results(w, Tail(results), pos + 1, gone)
         ELSE clear_results(IF Fails(w) THEN Failed(Called(w, "delete", 0, pos))
                            ELSE Called(w, "delete", 0, pos),
                            Tail(results), pos + 1,
                            IF Fails(w) THEN gone ELSE gone \cup {pos})

Without(listing, gone) ==
    LET keep == {i \in 1..Len(listing) : i \notin gone}
        F[i \in 0..Len(listing)] ==
            IF i = 0 THEN <<>>
            ELSE IF i \in keep THEN Append(F[i - 1], listing[i]) ELSE F[i - 1]
    IN F[Len(listing)]

RECURSIVE clear_loop(_, _, _, _, _)
\* the cursor of the provider names the next entry, so deleting the entries already
\* listed does not move it: the loop walks the listing as it was at the first request
clear_loop(w, page_id, listing, cursor, gone) ==
    LET r == blocks_children_list(w, page_id, cursor)
        page == ListPage(listing, cursor)
        done == [w EXCEPT !.remote[page_id].children = Without(listing, gone)]
    IN IF r.raised THEN Result([done EXCEPT !.calls = r.w.calls, !.failed = r.w.failed], TRUE, None)
       ELSE LET d == clear_results(r.w, page.results, cursor + 1, gone)
                after == [d.w EXCEPT !.remote[page_id].children = Without(listing, d.gone)]
            IN IF ~page.has_more THEN Result(after, FALSE, None)
               ELSE clear_loop(d.w, page_id, listing, page.next_cursor, d.gone)

clear_page_blocks(w, page_id) ==
    IF page_id \in 1..Len(w.remote)
    THEN clear_loop(w, page_id, w.remote[page_id].children, 0, {})
    ELSE Result(Failed(Called(w, "list", page_id, 0)), TRUE, None)

\* an append that sends all the children in one request
append_loop_whole(w, page_id, children, i) == blocks_children_append(w, page_id, children)

RECURSIVE append_loop(_, _, _, _)
append_loop(w, page_id, children, i) ==
    IF i >= Len(children) THEN Result(w, FALSE, None)
    ELSE LET r == blocks_children_append(w, page_id,
                      SubSeq(children, i + 1, Min(i + ChunkSize, Len(children))))
         IN IF r.raised THEN r
            ELSE append_loop(r.w, page_id, children, i + ChunkSize)

append_blocks(w, page_id, children) ==
    IF children = <<>> THEN Result(w, FALSE, None)
    ELSE append_loop(w, page_id, children, 0)

(***************************************************************************)
(* Database operations of lib/notion/sync.py.                              *)
(***************************************************************************)
\* client.databases.retrieve(database_id)
databases_retrieve(w, id) ==
    LET w1 == Called(w, "retrieve", id, 0)
    IN IF Fails(w) \/ ~Live(w.remote, id) THEN Result(Failed(w1), TRUE, None)
       ELSE Result(w1, FALSE, id)

\* returns the database id; its one data source goes by the same id in the model
create_database_with_schema(w, parent_page_id, title) ==
    create_container(w, "create_db", parent_page_id, "child_database", title)

get_or_create_database(w, parent_page_id, title) ==
    LET existing == get_child_block_by_title(w, parent_page_id, title)
    IN IF existing.raised THEN existing
       ELSE IF existing.ret # None /\ existing.ret[1].type = "child_database"
            THEN databases_retrieve(existing.w, existing.ret[1].id)
            ELSE create_database_with_schema(existing.w, parent_page_id, title)

(***************************************************************************)
(* SyncContext (lib/notion/sync.py).  The cache is a map from section      *)
(* ("page_ids", "hashes") to a map from key to value.                      *)
(***************************************************************************)
EmptyCache == EmptyMap

get_cached(c, section, key) ==
    IF section \in DOMAIN c THEN MapGet(c[section], key) ELSE None

set_cached(c, section, key, value) ==
    MapPut(c, section,
           MapPut(IF section \in DOMAIN c THEN c[section] ELSE EmptyMap, key, value))

\* f"{parent_id}:{title}"
PageKey(parent_id, title) == <<parent_id, title>>

ctx_ensure_page(w, parent_id, title) ==
    LET cache_key == PageKey(parent_id, title)
        cached_id == get_cached(w.cache, "page_ids", cache_key)
    IN IF cached_id # None THEN Result(w, FALSE, cached_id[1])
       ELSE LET r == ensure_page(w, parent_id, title)
            IN IF r.raised THEN r
               ELSE Result([r.w EXCEPT !.cache = set_cached(@, "page_ids", cache_key, r.ret)],
                           FALSE, r.ret)

\* line 116: the unit is skipped when the cached hash is the desired one
hash_matches(cached_hash, desired_hash) == cached_hash = Some(desired_hash)

\* a store that forgets the hash just written (keeps the hash of the empty text)
hash_to_store_stale(desired_hash) == sha1_text(<<>>)

\* line 125: the hash stored after the write
hash_to_store(desired_hash) == desired_hash

sync_page_blocks(w, md, dry, page_id, blocks, cache_key, skip_clear) ==
    LET desired_hash == desired_hash_of(blocks)
        cached_hash == get_cached(w.cache, "hashes", cache_key)
    IN IF md # "force" /\ hash_matches(cached_hash, desired_hash) THEN Result(w, FALSE, FALSE)
       ELSE IF dry THEN Result(w, FALSE, FALSE)
       ELSE LET c == IF skip_clear THEN Result(w, FALSE, None)
                     ELSE clear_page_blocks(w, page_id)
            IN IF c.raised THEN c
               ELSE LET a == append_blocks(c.w, page_id, blocks)
                    IN IF a.raised THEN a
                       ELSE Result([a.w EXCEPT !.cache =
                                       set_cached(@, "hashes", cache_key,
                                                  hash_to_store(desired_hash))],
                                   FALSE, TRUE)

recreate_page(w, parent_id, title) ==
    LET cache_key == PageKey(parent_id, title)
        existing == get_child_block_by_title(w, parent_id, title)
    IN IF existing.raised THEN existing
       ELSE LET d == IF existing.ret # None
                     THEN blocks_delete(existing.w, existing.ret[1].id).w
                     ELSE existing.w
                w2 == IF /\ existing.ret # None
                         /\ "page_ids" \in DOMAIN d.cache
                         /\ cache_key \in DOMAIN d.cache["page_ids"]
                      THEN [d EXCEPT !.cache["page_ids"] = MapDel(@, cache_key)]
                      ELSE d
                page == pages_create(w2, parent_id, title)
            IN IF page.raised THEN page
               ELSE Result([page.w EXCEPT !.cache =
                               set_cached(@, "page_ids", cache_key, page.ret)],
                           FALSE, page.ret)

(***************************************************************************)
(* Dataset rows (lib/notion/sync.py) and the cast / voice upsert           *)
(* (lib/notion/database.py).  A row is an entry of its database's listing; *)
(* its content maps property names to values, its id is <<database, n>>.   *)
(***************************************************************************)
\* res.get("results") or [] of one client.data_sources.query request
data_sources_query(w, data_source_id, cursor) ==
    LET w1 == Called(w, "query", data_source_id, cursor)
    IN IF \/ Fails(w)
          \/ ~Live(w.remote, data_source_id)
          \/ w.remote[data_source_id].type # "child_database"
       THEN Result(Failed(w1), TRUE, None)
       ELSE Result(w1, FALSE, ListPage(w.remote[data_source_id].children, cursor))

\* a scan that stops after the first page of rows
query_first_page(w, data_source_id, cursor, out) ==
    LET r == data_sources_query(w, data_source_id, cursor)
    IN IF r.raised THEN r ELSE Result(r.w, FALSE, out \o r.ret.results)

RECURSIVE query_loop(_, _, _, _)
query_loop(w, data_source_id, cursor, out) ==
    LET r == data_sources_query(w, data_source_id, cursor)
    IN IF r.raised THEN r
       ELSE IF ~r.ret.has_more THEN Result(r.w, FALSE, out \o r.ret.results)
       ELSE query_loop(r.w, data_source_id, r.ret.next_cursor, out \o r.ret.results)

query_data_source(w, data_source_id) == query_loop(w, data_source_id, 0, <<>>)

\* client.pages.create(parent={"data_source_id": ..}, properties=..)
create_database_row(w, data_source_id, properties) ==
    LET w1 == Called(w, "create_row", data_source_id, 0)
        n == Len(w.remote[data_source_id].children) + 1
        row == Entry("row", <<data_source_id, n>>, "", properties)
    IN IF \/ Fails(w)
          \/ ~Live(w.remote, data_source_id)
          \/ w.remote[data_source_id].type # "child_database"
       THEN Result(Failed(w1), TRUE, None)
       ELSE Result([w1 EXCEPT !.remote[data_source_id].children = Append(@, row)],
                   FALSE, row.id)

\* the properties given replace the row's, the others stay
MergeProps(old, new) ==
    [k \in (DOMAIN old) \cup (DOMAIN new) |-> IF k \in DOMAIN new THEN new[k] ELSE old[k]]

\* client.pages.update(page_id=row_id, properties=..)
update_database_row(w, row_id, properties) ==
    LET w1 == Called(w, "update_row", row_id, 0)
        ds == row_id[1]
        n == row_id[2]
    IN IF Fails(w) \/ ~Live(w.remote, ds)
       THEN Result(Failed(w1), TRUE, None)
       ELSE Result([w1 EXCEPT !.remote[ds].children[n].content = MergeProps(@, properties)],
                   FALSE, None)

\* rich_text_plain(props.get(title_prop, {}))
rich_text_plain(props, title_prop) ==
    IF title_prop \in DOMAIN props THEN props[title_prop] ELSE ""

\* an index that misses every row
index_rows_none(rows, title_prop, index) == index

RECURSIVE index_rows(_, _, _)
\* the for loop of _build_title_index: a later row with the same title wins
index_rows(rows, title_prop, index) ==
    IF rows = <<>> THEN index
    ELSE LET title == rich_text_plain(Head(rows).content, title_prop)
         IN index_rows(Tail(rows), title_prop,
                       IF title # "" THEN MapPut(index, title, Head(rows).id) ELSE index)

build_title_index(w, ds_id, title_prop) ==
    LET rows == query_data_source(w, ds_id)
    IN IF rows.raised THEN rows
       ELSE Result(rows.w, FALSE, index_rows(rows.ret, title_prop, EmptyMap))

\* URLs: [host, kind, file] with kind
\*   ""          (and no host, no file) the empty string
\*   "thumb"     https://<host>/images/thumb/a/ab/<file>/75px-<file>
\*   "image"     https://<host>/images/a/ab/<file>
\*   "filepath"  https://<host>/Special:FilePath/<file>
\*   "page"      any other path
Url(host, kind, file) == [host |-> host, kind |-> kind, file |-> file]
NoUrl == Url("", "", "")

normalize_gbf_media_url(url) ==
    IF url = NoUrl THEN url
    ELSE IF url.host # "gbf.wiki" THEN url
    ELSE IF url.kind \in {"image", "thumb"} THEN Url("gbf.wiki", "filepath", url.file)
    ELSE url

\* row_data.get(key, default)
Field(rec, key, default) == IF key \in DOMAIN rec THEN rec[key] ELSE default

\* an upsert that updates the indexed row in diff mode as well
upsert_row_always(w, md, ds_id, row_id, properties) ==
    IF row_id # None
    THEN update_database_row(w, row_id[1], properties).w
    ELSE create_database_row(w, ds_id, properties).w

\* lines 100-110 and 171-181: what is done for a record whose key has row_id in the
\* index (None: no row); an exception of the request is swallowed
upsert_row(w, md, ds_id, row_id, properties) ==
    IF row_id # None
    THEN IF md # "force" THEN w
         ELSE update_database_row(w, row_id[1], properties).w
    ELSE create_database_row(w, ds_id, properties).w

\* the requests of w2 issued after those of w1
Issued(w1, w2) == SubSeq(w2.calls, Len(w1.calls) + 1, Len(w2.calls))
Traced(w1, w2) == [w2 EXCEPT !.trace = Append(@, Issued(w1, w2))]

cast_properties(name, stable_url, wiki_url) ==
    LET base == [p \in {"Name", "Portrait"} |-> IF p = "Name" THEN name ELSE stable_url]
    IN IF wiki_url # "" THEN MapPut(base, "WikiUrl", wiki_url) ELSE base

RECURSIVE cast_rows_loop(_, _, _, _, _)
cast_rows_loop(w, md, ds_id, existing, rows) ==
    IF rows = <<>> THEN w
    ELSE LET row_data == Head(rows)
             name == Field(row_data, "name", "")
             image_url == Field(row_data, "image_url", NoUrl)
             wiki_url == Field(row_data, "wiki_url", "")
         IN IF name = "" \/ image_url = NoUrl
            THEN cast_rows_loop(Traced(w, w), md, ds_id, existing, Tail(rows))
            ELSE LET properties == cast_properties(name, normalize_gbf_media_url(image_url),
                                                   wiki_url)
                     w2 == upsert_row(w, md, ds_id, MapGet(existing, name), properties)
                 IN cast_rows_loop(Traced(w, w2), md, ds_id, existing, Tail(rows))

sync_cast_database(w, parent_id, rows, md, dry) ==
    LET db == get_or_create_database(w, parent_id, "Cast Portraits")
    IN IF db.raised THEN db
       ELSE IF dry THEN db
       ELSE LET existing == build_title_index(db.w, db.ret, "Name")
            IN IF existing.raised THEN existing
               ELSE Result(cast_rows_loop(existing.w, md, db.ret, existing.ret, rows),
                           FALSE, db.ret)

voice_properties(item, label, audio_url) ==
    LET texts == {k \in {"Japanese", "Chinese", "English"} : Field(item, k, "") # ""}
        keys == {"Label"} \cup texts \cup (IF audio_url # NoUrl THEN {"Audio"} ELSE {})
    IN [k \in keys |-> IF k = "Label" THEN label
                       ELSE IF k = "Audio" THEN audio_url ELSE item[k]]

RECURSIVE voice_rows_loop(_, _, _, _, _)
voice_rows_loop(w, md, ds_id, existing, voice_data) ==
    IF voice_data = <<>> THEN w
    ELSE LET item == Head(voice_data)
             label == Field(item, "Label", "Unknown")
         IN IF label = ""
            THEN voice_rows_loop(Traced(w, w), md, ds_id, existing, Tail(voice_data))
            ELSE LET audio_url == normalize_gbf_media_url(Field(item, "Audio", NoUrl))
                     properties == voice_properties(item, label, audio_url)
                     w2 == upsert_row(w, md, ds_id, MapGet(existing, label), properties)
                 IN voice_rows_loop(Traced(w, w2), md, ds_id, existing, Tail(voice_data))

\* f"{title} - Voice Lines"
VoiceTitle(title) == title \o " - Voice Lines"

sync_voice_database(w, parent_id, title, voice_data, md, dry) ==
    LET db == get_or_create_database(w, parent_id, VoiceTitle(title))
    IN IF db.raised THEN db
       ELSE IF dry THEN db
       ELSE LET existing == build_title_index(db.w, db.ret, "Label")
            IN IF existing.raised THEN existing
               ELSE Result(voice_rows_loop(existing.w, md, db.ret, existing.ret, voice_data),
                           FALSE, db.ret)

(***************************************************************************)
(* Inputs of the model.                                                    *)
(***************************************************************************)
\* the request that fails is among the first MaxFail of a handler (0: none fails)
MaxFail == 2
FailPoints == 0..MaxFail

Titles == {"A", "B"}
DocTitle == "A"
CacheKeys == {"k1", "k2"}

Para(content) == Block("paragraph", content)
\* block lists a caller passes: empty, one block, two blocks, more than one chunk
Docs == { <<>>,
          <<Para(<<"a">>)>>,
          <<Para(<<"b">>), Para(<<"a">>), Para(<<"b">>)>> }

\* the state stays within the bounds of the model
WithinBounds(rem) ==
    /\ Len(rem) <= MaxNodes
    /\ \A i \in 1..Len(rem) : Len(rem[i].children) <= MaxChildren

\* a call as seen by its caller: the operation, the container and the key (title or
\* cache key) it was given, its input (blocks or records), what it returned or that
\* it raised, the remote requests it issued, and those issued for each record
Observed(op, id, key, input, r) ==
    [op |-> op, id |-> id, key |-> key, input |-> input,
     ret |-> r.ret, raised |-> r.raised, calls |-> r.w.calls, trace |-> r.w.trace,
     log |-> r.w.log, failAt |-> r.w.failAt]

NoCall == [op |-> "none", id |-> 0, key |-> "", input |-> <<>>,
           ret |-> None, raised |-> FALSE, calls |-> <<>>, trace |-> <<>>,
           log |-> <<>>, failAt |-> 0]

\* what is remembered of the state a handler started from:
\*   repeat      the call repeats the sync_page_blocks call before it
\*   adopt       the children the find-or-create call was bound to adopt
\*   ensureOnly  no recreate_page call was made so far
\*   before      the rows the dataset held
\*   runs        the number of runs of the program so far
\*   prev        the run before the last one
\*   loaded      the cache file as the last run or cache operation found it
NoRun == [op |-> "none", mode |-> "diff", dry |-> FALSE, clean |-> FALSE, ended |-> "saved"]
NoHist == [repeat |-> FALSE, adopt |-> {}, ensureOnly |-> TRUE, before |-> <<>>,
           runs |-> 0, prev |-> NoRun, loaded |-> <<>>]

(***************************************************************************)
(* Spec: one SyncContext, the page of one document under the root, and     *)
(* sync_page_blocks calls with any blocks and cache keys, against a remote *)
(* store no one else writes.                                               *)
(***************************************************************************)
Init ==
    /\ remote = EmptyRemote
    /\ cache = EmptyCache
    /\ disk = EmptyCache
    /\ mode \in {"diff", "force"}
    /\ dry_run \in BOOLEAN
    /\ pc = "api"
    /\ last = NoCall
    /\ hist = NoHist

\* the handler's outcome r becomes the state
Commit(r, obs, h) ==
    /\ WithinBounds(r.w.remote)
    /\ remote' = r.w.remote
    /\ cache' = r.w.cache
    /\ last' = obs
    /\ hist' = h
    /\ UNCHANGED <<disk, mode, dry_run, pc>>

\* the caller resolves the page of its one document under the root
ResolveDocPage ==
    /\ pc = "api"
    /\ \E f \in FailPoints :
       \E r \in {ctx_ensure_page(World(remote, cache, f), RootId, DocTitle)} :
              Commit(r, Observed("ensure_page", RootId, DocTitle, <<>>, r), NoHist)

\* the call repeats the one before it: a sync_page_blocks that completed in diff
\* mode, not in dry run, with the same blocks and the same cache key
Repeats(blocks, cache_key) ==
    /\ last.op = "sync_page_blocks"
    /\ ~last.raised
    /\ mode = "diff" /\ ~dry_run
    /\ last.input = blocks /\ last.key = cache_key

\* page_id is a page the caller resolved (ensure_page, recreate_page)
CallSyncPageBlocks ==
    /\ pc = "api"
    /\ \E page_id \in 2..Len(remote), blocks \in Docs, cache_key \in CacheKeys,
          skip_clear \in BOOLEAN, f \in FailPoints :
       \E r \in {sync_page_blocks(World(remote, cache, f), mode, dry_run,
                                   page_id, blocks, cache_key, skip_clear)} :
              Commit(r, Observed("sync_page_blocks", page_id, cache_key, blocks, r),
                     [NoHist EXCEPT !.repeat = Repeats(blocks, cache_key)])

Next ==
    \/ ResolveDocPage
    \/ CallSyncPageBlocks

Spec == Init /\ [][Next]_vars

\* C1: in diff mode and not in dry run, a sync_page_blocks call that repeats the
\* completed call before it (same blocks, same cache key) returns False (unchanged)
\* and issues no remote call at all.
C1_Idempotent ==
    hist.repeat => (~last.raised /\ last.ret = FALSE /\ last.calls = <<>>)

\* a repeated call came back unchanged while the page holds the blocks of the first
C1_Witness ==
    /\ hist.repeat
    /\ last.ret = FALSE /\ last.calls = <<>>
    /\ last.input # <<>>
    /\ remote[last.id].children = [i \in 1..Len(last.input) |-> BlockEntry(last.input[i])]

(***************************************************************************)
(* SpecContainers: the find-or-create calls of one SyncContext under one   *)
(* parent.                                                                 *)
(***************************************************************************)
Parents == {RootId}

\* the children of parent_id of type t titled title
Titled(rem, parent_id, t, title) ==
    {rem[parent_id].children[i].id : i \in
        {j \in 1..Len(rem[parent_id].children) :
            /\ rem[parent_id].children[j].type = t
            /\ rem[parent_id].children[j].title = title}}

CallEnsurePage ==
    /\ pc = "api"
    /\ \E parent_id \in Parents, title \in Titles, f \in FailPoints :
       \E r \in {ctx_ensure_page(World(remote, cache, f), parent_id, title)} :
       \E adopt \in {IF get_cached(cache, "page_ids", PageKey(parent_id, title)) = None
                     THEN Titled(remote, parent_id, "child_page", title) ELSE {}} :
              Commit(r, Observed("ensure_page", parent_id, title, <<>>, r),
                     [hist EXCEPT !.repeat = FALSE, !.adopt = adopt])

CallGetOrCreateDatabase ==
    /\ pc = "api"
    /\ \E parent_id \in Parents, title \in Titles, f \in FailPoints :
       \E r \in {get_or_create_database(World(remote, cache, f), parent_id, title)} :
              Commit(r, Observed("get_or_create_database", parent_id, title, <<>>, r),
                     [hist EXCEPT !.repeat = FALSE,
                                  !.adopt = Titled(remote, parent_id, "child_database", title)])

CallRecreatePage ==
    /\ pc = "api"
    /\ \E parent_id \in Parents, title \in Titles, f \in FailPoints :
       \E r \in {recreate_page(World(remote, cache, f), parent_id, title)} :
              Commit(r, Observed("recreate_page", parent_id, title, <<>>, r),
                     [hist EXCEPT !.repeat = FALSE, !.adopt = {}, !.ensureOnly = FALSE])

NextContainers ==
    \/ CallEnsurePage
    \/ CallRecreatePage
    \/ CallGetOrCreateDatabase

SpecContainers == Init /\ [][NextContainers]_vars

Creates(calls) == {i \in 1..Len(calls) : calls[i].op \in {"create", "create_db"}}

\* no parent holds two containers of one type with one title
NoDuplicateContainers ==
    \A p \in 1..Len(remote) : \A t \in Containers : \A title \in Titles :
        Cardinality(Titled(remote, p, t, title)) <= 1

\* C2: when the parent already holds a child of the requested kind with the title
\* and the key is not cached, ensure_page and get_or_create_database issue no create
\* call and return that child's id; hence ensure calls alone never leave two
\* containers of one kind with one title under one parent.
C2_LookupBeforeCreate ==
    /\ hist.adopt # {} =>
          /\ Creates(last.calls) = {}
          /\ ~last.raised => last.ret \in hist.adopt
    /\ hist.ensureOnly => NoDuplicateContainers

(***************************************************************************)
(* SpecVanish: the find-or-create calls of one SyncContext, while someone  *)
(* else deletes containers in the remote store.                            *)
(***************************************************************************)
\* a page or database is deleted in the remote store by another client
RemoteDelete ==
    /\ pc = "api"
    /\ \E id \in 2..Len(remote) :
           /\ Live(remote, id)
           /\ remote' = blocks_delete(World(remote, cache, 0), id).w.remote
           /\ last' = [NoCall EXCEPT !.op = "remote_delete", !.id = id]
    /\ UNCHANGED <<cache, disk, mode, dry_run, pc, hist>>

NextVanish == NextContainers \/ RemoteDelete

SpecVanish == Init /\ [][NextVanish]_vars

\* C17: an ensure_page call that returns, returns the id of a live page, also when
\* the page whose id is cached for (parent, title) was deleted remotely.
C17_VanishedRecreated ==
    (last.op = "ensure_page" /\ ~last.raised) => Live(remote, last.ret)

(***************************************************************************)
(* SpecDb: the syncs of one dataset under the root page (the cast dataset   *)
(* or a voice dataset) by a caller that is or is not in dry run, each with  *)
(* its own mode, any records and any failing request.                      *)
(***************************************************************************)
\* rows a dataset may hold
MaxRows == 3

GbfThumb == Url("gbf.wiki", "thumb", "f1")
GbfImage == Url("gbf.wiki", "image", "f1")
OtherUrl == Url("example.org", "image", "f1")

CastRecord(name, image_url, wiki_url) ==
    [name |-> name, image_url |-> image_url, wiki_url |-> wiki_url]

\* cast records: two for N with different images, one with a wiki link, one for M
\* whose image normalises to that of the first, and two without a valid key
CastRecords ==
    { CastRecord("N", GbfThumb, ""),
      CastRecord("N", OtherUrl, "w"),
      CastRecord("M", GbfImage, ""),
      CastRecord("", GbfThumb, ""),
      CastRecord("N", NoUrl, "") }

\* the record lists of a cast sync: none, one record, one name twice, a record
\* after one without a valid key, two names
CastInputs ==
    {<<>>} \cup {<<row_data>> : row_data \in CastRecords} \cup
    { <<CastRecord("N", GbfThumb, ""), CastRecord("N", OtherUrl, "w")>>,
      <<CastRecord("", GbfThumb, ""), CastRecord("N", OtherUrl, "w")>>,
      <<CastRecord("M", GbfImage, ""), CastRecord("N", GbfThumb, "")>> }

\* voice records: two with label L, one with an empty label, one without a label
VoiceRecords ==
    { [Label |-> "L", Japanese |-> "j"],
      [Label |-> "L", Chinese |-> "c", Audio |-> GbfThumb],
      [Label |-> "", Japanese |-> "j"],
      [Japanese |-> "j", English |-> "e"] }

\* the record lists of a voice sync: none, one record, one label twice, a record
\* after one with an empty label, two labels
VoiceInputs ==
    {<<>>} \cup {<<item>> : item \in VoiceRecords} \cup
    { << [Label |-> "L", Japanese |-> "j"],
         [Label |-> "L", Chinese |-> "c", Audio |-> GbfThumb] >>,
      << [Label |-> "", Japanese |-> "j"], [Label |-> "L", Japanese |-> "j"] >>,
      << [Japanese |-> "j", English |-> "e"], [Label |-> "L", Japanese |-> "j"] >> }

InitDb ==
    /\ remote = EmptyRemote
    /\ cache = EmptyCache
    /\ disk = EmptyCache
    /\ mode = "diff"
    /\ dry_run \in BOOLEAN
    /\ pc \in {"cast", "voice"}
    /\ last = NoCall
    /\ hist = NoHist

\* the rows of the dataset the sync returned, as they were before the sync
RowsBefore(db_id) ==
    IF db_id \in 1..Len(remote) THEN remote[db_id].children ELSE <<>>

WithinRows(rem) ==
    /\ WithinBounds(rem)
    /\ \A i \in 1..Len(rem) : rem[i].type = "child_database" => Len(rem[i].children) <= MaxRows

CommitDb(r, obs, md) ==
    /\ WithinRows(r.w.remote)
    /\ remote' = r.w.remote
    /\ last' = obs
    /\ hist' = [NoHist EXCEPT !.before = IF r.raised THEN <<>> ELSE RowsBefore(r.ret)]
    /\ mode' = md
    /\ UNCHANGED <<cache, disk, dry_run, pc>>

\* the request that fails: none (0), the first one (1), or the first (-1) or the
\* second (-2) of the requests made for the records
DbFailPoints == {-2, -1, 0, 1}

\* the number of the failing request, given the outcome r0 of the sync without failure
DbFailAt(f, r0) ==
    IF f >= 0 THEN f
    ELSE Len(r0.w.calls) - Len(Concat(r0.w.trace)) - f

SyncCast ==
    /\ pc = "cast"
    /\ \E rows \in CastInputs, md \in {"diff", "force"},
          f \in DbFailPoints :
       \E r0 \in {sync_cast_database(World(remote, cache, 0), RootId, rows, md, dry_run)} :
       \E failAt \in {DbFailAt(f, r0)} :
       \E r \in {sync_cast_database(World(remote, cache, failAt), RootId, rows, md, dry_run)} :
              CommitDb(r, Observed("sync_cast_database", RootId, "Name", rows, r), md)

SyncVoice ==
    /\ pc = "voice"
    /\ \E voice_data \in VoiceInputs, md \in {"diff", "force"},
          f \in DbFailPoints :
       \E r0 \in {sync_voice_database(World(remote, cache, 0), RootId, "Quotes",
                                       voice_data, md, dry_run)} :
       \E failAt \in {DbFailAt(f, r0)} :
       \E r \in {sync_voice_database(World(remote, cache, failAt), RootId, "Quotes",
                                      voice_data, md, dry_run)} :
              CommitDb(r, Observed("sync_voice_database", RootId, "Label", voice_data, r),
                       md)

NextDb ==
    \/ SyncCast
    \/ SyncVoice

SpecDb == InitDb /\ [][NextDb]_vars

\* the key of a record and whether the record has a valid key
KeyOf(op, rec) ==
    IF op = "sync_cast_database" THEN rec.name ELSE Field(rec, "Label", "Unknown")

ValidKey(op, rec) ==
    IF op = "sync_cast_database" THEN rec.name # "" /\ rec.image_url # NoUrl
    ELSE KeyOf(op, rec) # ""

\* the positions in rows (a full listing of the dataset) of the rows titled key
RowsOf(rows, title_prop, key) ==
    {j \in 1..Len(rows) : title_prop \in DOMAIN rows[j].content
                            /\ rows[j].content[title_prop] = key}

\* the row the index built from the full listing rows maps key to: the last one
IndexedRow(rows, title_prop, key) ==
    LET js == RowsOf(rows, title_prop, key)
    IN rows[CHOOSE j \in js : \A k \in js : k <= j].id

\* the last call was a dataset sync that got to its loop over the records
SyncedRecords ==
    /\ last.op \in {"sync_cast_database", "sync_voice_database"}
    /\ ~last.raised
    /\ ~dry_run

\* a dataset sync that got to its loop over the records upserts by mode
upserts_by_mode ==
    SyncedRecords =>
       /\ Len(last.trace) = Len(last.input)
       /\ \A i \in 1..Len(last.input) :
              LET rec == last.input[i]
                  key == KeyOf(last.op, rec)
                  present == RowsOf(hist.before, last.key, key) # {}
              IN IF ~ValidKey(last.op, rec) THEN last.trace[i] = <<>>
                 ELSE IF ~present
                      THEN last.trace[i] = <<Request("create_row", last.ret, 0)>>
                 ELSE IF mode = "force"
                      THEN last.trace[i] =
                             <<Request("update_row",
                                       IndexedRow(hist.before, last.key, key), 0)>>
                 ELSE last.trace[i] = <<>>
       /\ mode # "force" =>
              \A j \in 1..Len(hist.before) :
                  remote[last.ret].children[j] = hist.before[j]

CastNames == {row_data.name : row_data \in CastRecords} \ {""}

\* the last call was a cast sync that got to its loop, and before it the dataset
\* held exactly one row for name, the j-th
OneRowBefore(name, j) ==
    /\ SyncedRecords
    /\ last.op = "sync_cast_database"
    /\ RowsOf(hist.before, "Name", name) = {j}

\* C10: a cast sync of a dataset that holds exactly one row for a name leaves exactly
\* one row for that name, whatever image the records for it carry; in diff mode the
\* row keeps the Portrait it had, so the Portrait changes only when the sync runs in
\* force mode.
C10_CastDedup ==
    \A name \in CastNames : \A j \in 1..MaxRows :
        OneRowBefore(name, j) =>
           /\ RowsOf(remote[last.ret].children, "Name", name) = {j}
           /\ remote[last.ret].children[j].content["Portrait"]
                 # hist.before[j].content["Portrait"] => mode = "force"

\* a diff sync was given a record for N whose image differs from the Portrait of the
\* one row for N, and left that row alone
C10_Witness ==
    \E j \in 1..MaxRows :
        /\ OneRowBefore("N", j)
        /\ mode = "diff"
        /\ \E i \in 1..Len(last.input) :
               /\ last.input[i].name = "N"
               /\ last.input[i].image_url # NoUrl
               /\ normalize_gbf_media_url(last.input[i].image_url)
                     # hist.before[j].content["Portrait"]
        /\ RowsOf(remote[last.ret].children, "Name", "N") = {j}
        /\ remote[last.ret].children[j] = hist.before[j]

RECURSIVE SumLen(_)
SumLen(ss) == IF ss = <<>> THEN 0 ELSE Len(Head(ss)) + SumLen(Tail(ss))

\* the record whose create or update request was the one that failed (0: none)
FailedRecord ==
    LET first == Len(last.calls) - SumLen(last.trace)
        is == {i \in 1..Len(last.trace) :
                  /\ first + SumLen(SubSeq(last.trace, 1, i - 1)) < last.failAt
                  /\ last.failAt <= first + SumLen(SubSeq(last.trace, 1, i))}
    IN IF is = {} THEN 0 ELSE CHOOSE i \in is : TRUE

\* the requests a sync without failure makes for record i
RequestsFor(i) ==
    LET rec == last.input[i]
        key == KeyOf(last.op, rec)
    IN IF ~ValidKey(last.op, rec) THEN <<>>
       ELSE IF RowsOf(hist.before, last.key, key) = {}
       THEN <<Request("create_row", last.ret, 0)>>
       ELSE IF mode = "force"
       THEN <<Request("update_row", IndexedRow(hist.before, last.key, key), 0)>>
       ELSE <<>>

\* the failure of one record is swallowed: the sync returns the dataset id and every
\* later record gets the requests it gets without the failure
LaterRecordsProcessed ==
    (SyncedRecords /\ FailedRecord > 0) =>
        /\ last.ret \in 1..Len(remote)
        /\ remote[last.ret].type = "child_database"
        /\ \A i \in (FailedRecord + 1)..Len(last.input) : last.trace[i] = RequestsFor(i)

\* C16: when the create or update request of one record fails, the sync still
\* returns the dataset id, every later record gets the requests it gets without the
\* failure, and the failure is logged.
C16_RowFailureIsolated ==
    /\ LaterRecordsProcessed
    /\ (SyncedRecords /\ FailedRecord > 0) => last.log # <<>>

(***************************************************************************)
(* The cache file (lib/notion/sync.py, load_state and save_state).  The    *)
(* text of a file is a sequence of tokens; a JSON document is an opening   *)
(* bracket, a body and a closing bracket, or one token for a scalar.       *)
(***************************************************************************)
\* no file at the path
MissingFile == [exists |-> FALSE, text |-> <<>>]
TextFile(text) == [exists |-> TRUE, text |-> text]

\* a JSON value: a dict (body: its map), a list (body: its items) or a scalar (kind:
\* its text)
Json(kind, body) == [kind |-> kind, body |-> body]
JsonDict(m) == Json("dict", m)
JsonScalars == {"null", "0", "\"s\""}

\* json.dumps(state)
json_dumps(state) ==
    IF state.kind = "dict" THEN <<"{", state.body, "}">>
    ELSE IF state.kind = "list" THEN <<"[", state.body, "]">>
    ELSE <<state.kind>>

\* json.loads(text): the value parsed, or that parsing raises
json_loads(text) ==
    IF Len(text) = 3 /\ text[1] = "{" /\ text[3] = "}"
    THEN [raised |-> FALSE, kind |-> "dict", body |-> text[2]]
    ELSE IF Len(text) = 3 /\ text[1] = "[" /\ text[3] = "]"
    THEN [raised |-> FALSE, kind |-> "list", body |-> text[2]]
    ELSE IF Len(text) = 1 /\ text[1] \in JsonScalars
    THEN [raised |-> FALSE, kind |-> text[1], body |-> EmptyMap]
    ELSE [raised |-> TRUE, kind |-> "", body |-> EmptyMap]

\* the value load_state returns: {} for a missing or unparsable file, else whatever
\* value the text parses to
load_state(file) ==
    IF ~file.exists THEN JsonDict(EmptyMap)
    ELSE LET v == json_loads(file.text)
         IN IF v.raised THEN JsonDict(EmptyMap) ELSE Json(v.kind, v.body)

\* save_state: write_text truncates the file and writes the text; written is the
\* number of tokens that reach the file before the write fails (the exception is
\* swallowed) or the process dies, all of them when it does neither
save_state(file, state, written) ==
    TextFile(SubSeq(json_dumps(state), 1, written))

\* SyncContext.save() that completes
save(file, state) == save_state(file, state, Len(json_dumps(state)))

(***************************************************************************)
(* The voice table parser (parsers.py).  A text is the sequence of its     *)
(* stripped lines; a table line holds its cells, a cell the stripped text  *)
(* between two bars and the address the Audio pattern finds in it.         *)
(***************************************************************************)
Cell(text, url) == [text |-> text, url |-> url]
TextCell(text) == Cell(text, NoUrl)

\* kind: "table" (starts with a bar), "heading" (starts with #), "text", "blank";
\* dashes: the line contains '---'
Line(kind, dashes, cells) == [kind |-> kind, dashes |-> dashes, cells |-> cells]
TableLine(texts) == Line("table", FALSE, [i \in 1..Len(texts) |-> TextCell(texts[i])])
SepLine == Line("table", TRUE, <<>>)
TextLine == Line("text", FALSE, <<>>)

Long35 == "aaaaaaaaaabbbbbbbbbbccccccccccddddd"
\* s[:30] on the texts in use
Truncate30(s) == IF s = Long35 THEN "aaaaaaaaaabbbbbbbbbbcccccccccc" ELSE s

\* lines 120-134: the column a header cell names ("" for none), on the cells in use
ColumnOf(text) ==
    CASE text \in {"Label", "label"} -> "Label"
      [] text \in {"Japanese", "JP", "jp"} -> "Japanese"
      [] text \in {"Chinese", "CN", "cn"} -> "Chinese"
      [] text \in {"English", "EN", "en"} -> "English"
      [] text \in {"Audio", "audio"} -> "Audio"
      [] OTHER -> ""

\* lines 117-134: temp_col_map, where a later cell naming a column replaces an earlier
temp_col_map(cells) ==
    LET keys == {ColumnOf(cells[i].text) : i \in 1..Len(cells)} \ {""}
    IN [k \in keys |->
           CHOOSE i \in 1..Len(cells) :
               /\ ColumnOf(cells[i].text) = k
               /\ \A j \in 1..Len(cells) : ColumnOf(cells[j].text) = k => j <= i]

\* lines 146-157: the data row of a line, without its empty values
voice_row(col_map, cells) ==
    LET keys == {k \in DOMAIN col_map :
                    /\ col_map[k] <= Len(cells)
                    /\ IF k = "Audio" THEN cells[col_map[k]].url # NoUrl
                       ELSE cells[col_map[k]].text # ""}
    IN [k \in keys |-> IF k = "Audio" THEN cells[col_map[k]].url
                       ELSE cells[col_map[k]].text]

\* the state of the loop of parse_voice_table
VoiceParse(rows, header_found, col_map, last_label, label_counter) ==
    [rows |-> rows, header_found |-> header_found, col_map |-> col_map,
     last_label |-> last_label, label_counter |-> label_counter]

\* lines 159-173: a row with content gets its label and is appended
voice_label_row(st, row) ==
    IF ~(\E k \in {"Japanese", "Chinese", "Audio"} : k \in DOMAIN row) THEN st
    ELSE IF "Label" \in DOMAIN row
    THEN [st EXCEPT !.last_label = row.Label,
                    !.label_counter = MapPut(@, row.Label, 1),
                    !.rows = Append(@, row)]
    ELSE IF st.last_label # ""
    THEN LET n == (IF st.last_label \in DOMAIN st.label_counter
                   THEN st.label_counter[st.last_label] ELSE 0) + 1
         IN [st EXCEPT !.label_counter = MapPut(@, st.last_label, n),
                       !.rows = Append(@, MapPut(row, "Label",
                                    st.last_label \o " #" \o ToString(n)))]
    ELSE LET text == Truncate30(IF Field(row, "Japanese", "") # ""
                                THEN row.Japanese ELSE Field(row, "Chinese", ""))
         IN [st EXCEPT !.rows = Append(@, MapPut(row, "Label",
                                    IF text # "" THEN text ELSE "Voice"))]

\* lines 91-173: one line of the text
voice_line(st, line) ==
    IF line.kind # "table"
    THEN IF line.kind = "text" THEN [st EXCEPT !.header_found = FALSE] ELSE st
    ELSE IF line.dashes THEN [st EXCEPT !.header_found = TRUE]
    ELSE IF line.cells = <<>> THEN st
    ELSE IF Cardinality(DOMAIN temp_col_map(line.cells)) >= 2
    THEN [st EXCEPT !.col_map = temp_col_map(line.cells), !.header_found = FALSE]
    ELSE IF ~st.header_found THEN st
    ELSE voice_label_row(st, voice_row(st.col_map, line.cells))

RECURSIVE voice_lines(_, _)
voice_lines(st, lines) ==
    IF lines = <<>> THEN st
    ELSE Only({voice_lines(st2, Tail(lines)) : st2 \in {voice_line(st, Head(lines))}})

(***************************************************************************)
(* The uploader (notion_upload.py) run as                                  *)
(*   notion_upload.py <folder> <name> --lore-only [--sync-mode force]      *)
(*                    [--dry-run] [--clean]                                *)
(* over the local files of one character.                                  *)
(***************************************************************************)
MdFile(stem, content) ==
    [kind |-> "file", stem |-> stem, suffix |-> ".md", content |-> content]
OtherFile(stem, suffix) ==
    [kind |-> "file", stem |-> stem, suffix |-> suffix, content |-> <<>>]
Dir(name, items) == [kind |-> "dir", name |-> name, items |-> items]

CharFolder == "c"
DisplayName == "C"

\* characters/c/lore/trans, each directory in sorted order: a document at the root
\* and two versions with a profile each; the text of a document is its lines, that
\* of a table its rows
LoreRoot ==
    << MdFile("intro", <<"z">>),
       Dir("v1", << Dir("profile",
                        << MdFile("a", <<"x">>),
                           MdFile("cast", <<CastRecord("N", GbfThumb, "")>>),
                           OtherFile("a", ".txt") >>) >>),
       Dir("v2", << Dir("profile",
                        << MdFile("a", <<"y", "", "x">>),
                           MdFile("quotes", << TableLine(<<"Label", "Japanese">>), SepLine,
                                               TableLine(<<"L", "j">>) >>) >>) >>) >>

\* name.replace('_', ' ').title() on the names in use
title_case(name) ==
    CASE name = "v1" -> "V1"
      [] name = "v2" -> "V2"
      [] name = "profile" -> "Profile"
      [] name = "quotes" -> "Quotes"
      [] OTHER -> name

\* a table text parses to its rows that hold an image / some text
parse_cast_table(content) == SelectSeq(content, LAMBDA row : row.image_url # NoUrl)
parse_voice_table(content) ==
    voice_lines(VoiceParse(<<>>, FALSE, EmptyMap, "", EmptyMap), content).rows

\* both renderers skip blank lines and turn a line without markup into a paragraph
render_story_blocks(content) ==
    LET lines == SelectSeq(content, LAMBDA line : line # "")
    IN [i \in 1..Len(lines) |-> Para(<<lines[i]>>)]
render_profile_blocks(content) ==
    LET lines == SelectSeq(content, LAMBDA line : line # "")
    IN [i \in 1..Len(lines) |-> Para(<<lines[i]>>)]

\* f"{cache_prefix}:{title}"
CacheKey(cache_prefix, title) == cache_prefix \o ":" \o title
\* f"lore:{char_folder}:{name}"
LorePrefix(char_folder, name) == "lore:" \o char_folder \o ":" \o name

RECURSIVE delete_results(_, _)
\* the for loop of delete_all_children over one page of results: child pages and
\* databases are deleted, a failed delete is logged and swallowed
delete_results(w, results) ==
    IF results = <<>> THEN w
    ELSE IF Head(results).type \in Containers
         THEN Only({delete_results(IF d.raised THEN Logged(d.w, "Failed to delete", 0)
                                   ELSE d.w, Tail(results)) :
                    d \in {blocks_delete(w, Head(results).id)}})
         ELSE delete_results(w, Tail(results))

RECURSIVE delete_children_loop(_, _, _, _)
\* as in clear_page_blocks, the loop walks the listing as it was at the first request
delete_children_loop(w, parent_id, listing, cursor) ==
    LET r == blocks_children_list(w, parent_id, cursor)
        page == ListPage(listing, cursor)
    IN IF r.raised THEN r
       ELSE LET w2 == delete_results(r.w, page.results)
            IN IF ~page.has_more THEN Result(w2, FALSE, None)
               ELSE delete_children_loop(w2, parent_id, listing, page.next_cursor)

delete_all_children(w, parent_id) ==
    IF parent_id \in 1..Len(w.remote)
    THEN delete_children_loop(w, parent_id, w.remote[parent_id].children, 0)
    ELSE Result(Failed(Called(w, "list", parent_id, 0)), TRUE, None)

\* lines 120 and 125: the status of the page, or the error
page_status(r, status) ==
    IF r.raised THEN Logged(r.w, "ERROR", 0)
    ELSE Logged(r.w, IF status = "" THEN (IF r.ret THEN "updated" ELSE "skipped")
                     ELSE status, 0)

\* every exception is logged and swallowed, so the world is what is left
sync_md_to_page(w, md, dry, parent_id, md_file, cache_prefix, is_profile) ==
    LET title == md_file.stem
    IN IF md_file.stem \o md_file.suffix = "cast.md"
       THEN LET rows == parse_cast_table(md_file.content)
            IN IF rows = <<>> THEN w
               ELSE Only({ IF r.raised THEN Logged(r.w, "ERROR", 0)
                           ELSE Logged(r.w, "Cast entries", Len(rows)) :
                           r \in {sync_cast_database(w, parent_id, rows, md, dry)} })
       ELSE LET blocks == IF is_profile THEN render_profile_blocks(md_file.content)
                          ELSE render_story_blocks(md_file.content)
                cache_key == CacheKey(cache_prefix, title)
            IN IF md = "force"
               THEN Only({ IF page.raised THEN Logged(page.w, "ERROR", 0)
                           ELSE page_status(sync_page_blocks(page.w, md, dry, page.ret,
                                                             blocks, cache_key, TRUE),
                                            "recreated") :
                           page \in {recreate_page(w, parent_id, title)} })
               ELSE Only({ IF page.raised THEN Logged(page.w, "ERROR", 0)
                           ELSE page_status(sync_page_blocks(page.w, md, dry, page.ret,
                                                             blocks, cache_key, FALSE),
                                            "") :
                           page \in {ctx_ensure_page(w, parent_id, title)} })

\* file_item.stem == "quotes" or "quote" in file_item.stem.lower(), on the stems in use
is_quotes(stem) == stem = "quotes"

\* lines 148-178: one file of a directory item that holds no directory; the quotes
\* call passes mode only, so its dry_run is the default False
sync_lore_file(w, md, dry, category_page_id, item, file_item, char_folder) ==
    IF file_item.suffix # ".md" THEN w
    ELSE IF is_quotes(file_item.stem)
    THEN LET rows == parse_voice_table(file_item.content)
         IN IF rows = <<>> THEN w
            ELSE Only({ IF r.raised THEN Logged(r.w, "ERROR", 0)
                        ELSE Logged(r.w, "quotes", Len(rows)) :
                        r \in {sync_voice_database(w, category_page_id,
                                                   title_case(file_item.stem),
                                                   rows, md, FALSE)} })
    ELSE sync_md_to_page(w, md, dry, category_page_id, file_item,
                         LorePrefix(char_folder, item.name), item.name = "profile")

RECURSIVE sync_lore_files(_, _, _, _, _, _, _)
\* line 147: for file_item in sorted(item.iterdir())
sync_lore_files(w, md, dry, category_page_id, item, files, char_folder) ==
    IF files = <<>> THEN w
    ELSE Only({ sync_lore_files(w2, md, dry, category_page_id, item, Tail(files),
                                char_folder) :
                w2 \in {sync_lore_file(w, md, dry, category_page_id, item, Head(files),
                                       char_folder)} })

has_subdirs(item) == \E i \in 1..Len(item.items) : item.items[i].kind = "dir"

RECURSIVE sync_lore_item(_, _, _, _, _, _)
RECURSIVE sync_lore_content(_, _, _, _, _, _)
\* the body of the loop of sync_lore_content for one item; an exception of
\* ensure_page is not caught
sync_lore_item(w, md, dry, lore_page_id, item, char_folder) ==
    IF item.kind = "dir"
    THEN Only({ IF category.raised THEN category
                ELSE IF has_subdirs(item)
                THEN sync_lore_content(category.w, md, dry, category.ret, item.items,
                                       char_folder)
                ELSE Result(sync_lore_files(category.w, md, dry, category.ret, item,
                                            item.items, char_folder), FALSE, None) :
                category \in {ctx_ensure_page(w, lore_page_id, title_case(item.name))} })
    ELSE IF item.suffix = ".md"
    THEN Result(sync_md_to_page(w, md, dry, lore_page_id, item,
                                LorePrefix(char_folder, "root"), FALSE), FALSE, None)
    ELSE Result(w, FALSE, None)

\* items: sorted(lore_root.iterdir())
sync_lore_content(w, md, dry, lore_page_id, items, char_folder) ==
    IF items = <<>> THEN Result(w, FALSE, None)
    ELSE Only({ IF r.raised THEN r
                ELSE sync_lore_content(r.w, md, dry, lore_page_id, Tail(items),
                                       char_folder) :
                r \in {sync_lore_item(w, md, dry, lore_page_id, Head(items),
                                      char_folder)} })

\* lines 285-288: the cleaning of the character page
clean_character(w, dry, char_page_id, clean) ==
    IF clean /\ ~dry THEN delete_all_children(w, char_page_id)
    ELSE Result(w, FALSE, None)

\* lines 301-309: the Lore page and the lore content
sync_lore(w, md, dry, char_page_id, char_folder, lore_root) ==
    Only({ IF lore_page.raised THEN lore_page
           ELSE sync_lore_content(lore_page.w, md, dry, lore_page.ret, lore_root,
                                  char_folder) :
           lore_page \in {ctx_ensure_page(w, char_page_id, "Lore")} })

\* sync_character with lore_only set
sync_character(w, md, dry, char_section_id, char_folder, display_name, clean, lore_root) ==
    Only({ IF char_page.raised THEN char_page
           ELSE Only({ IF cleaned.raised THEN cleaned
                       ELSE sync_lore(cleaned.w, md, dry, char_page.ret, char_folder,
                                      lore_root) :
                       cleaned \in {clean_character(char_page.w, dry, char_page.ret,
                                                    clean)} }) :
           char_page \in {ctx_ensure_page(w, char_section_id, display_name)} })

\* lines 436-457: the pages above the character and the character, for a cache that
\* is a dict
sync_all(w, md, dry, clean, lore_root) ==
    Only({ IF gbf.raised THEN gbf
           ELSE Only({ IF section.raised THEN section
                       ELSE sync_character(section.w, md, dry, section.ret, CharFolder,
                                           DisplayName, clean, lore_root) :
                       section \in {ctx_ensure_page(gbf.w, gbf.ret, "Character")} }) :
           gbf \in {ctx_ensure_page(w, RootId, "GBF")} })

\* how a run ended: "saved" (ctx.save() was reached), "raised" (an exception reached
\* the top level) or "died"; only the first writes the cache file
RunOutcome(done, file, dieAt) ==
    LET died == dieAt > 0 /\ Len(done.w.calls) >= dieAt
        ended == IF died THEN "died" ELSE IF done.raised THEN "raised" ELSE "saved"
    IN [remote |-> done.w.remote,
        cache |-> done.w.cache,
        file |-> IF ended = "saved" THEN save(file, JsonDict(done.w.cache)) ELSE file,
        calls |-> IF died THEN SubSeq(done.w.calls, 1, dieAt - 1) ELSE done.w.calls,
        ended |-> ended,
        log |-> done.w.log,
        failed |-> done.w.failed]

\* one run of main; the process dies when it is about to issue request dieAt (0: it
\* does not die)
main(rem, file, md, dry, clean, dieAt, lore_root) ==
    Only({ Only({ RunOutcome(done, file, dieAt) :
                  done \in { IF loaded.kind # "dict"
                             THEN Result(World(rem, EmptyCache, 0), TRUE, None)
                             ELSE sync_all([World(rem, loaded.body, dieAt)
                                               EXCEPT !.fatal = TRUE],
                                           md, dry, clean, lore_root) } }) :
           loaded \in {load_state(file)} })

(***************************************************************************)
(* SpecRun: runs of the uploader, one after another, over the same local   *)
(* files, the same remote store and the same cache file.                   *)
(***************************************************************************)
MaxRuns == 3
\* a run that dies does so before one of its first MaxDie requests
MaxDie == 4

InitRun ==
    /\ remote = EmptyRemote
    /\ cache = EmptyCache
    /\ disk = MissingFile
    /\ mode = "diff"
    /\ dry_run = FALSE
    /\ pc = "run"
    /\ last = NoCall
    /\ hist = NoHist

\* the last run as the next one remembers it
LastRun ==
    IF last.op = "none" THEN NoRun
    ELSE [op |-> "main", mode |-> mode, dry |-> dry_run, clean |-> last.input.clean,
          ended |-> last.ret]

Run ==
    /\ pc = "run"
    /\ hist.runs < MaxRuns
    /\ \E md \in {"diff", "force"}, dry \in BOOLEAN, clean \in BOOLEAN, dieAt \in 0..MaxDie :
       \E run \in {main(remote, disk, md, dry, clean, dieAt, LoreRoot)} :
           /\ remote' = run.remote
           /\ cache' = run.cache
           /\ disk' = run.file
           /\ mode' = md
           /\ dry_run' = dry
           /\ last' = [op |-> "main", id |-> RootId, key |-> "",
                       input |-> [clean |-> clean], ret |-> run.ended,
                       raised |-> run.ended = "raised", calls |-> run.calls,
                       trace |-> <<>>]
           /\ hist' = [NoHist EXCEPT !.runs = hist.runs + 1, !.prev = LastRun,
                                     !.loaded = disk]
           /\ UNCHANGED pc

NextRun == Run

SpecRun == InitRun /\ [][NextRun]_vars

RECURSIVE lore_docs(_, _)
\* the documents among items, each with the titles of the pages that lead to it and
\* its rendered blocks
lore_docs(items, path) ==
    IF items = <<>> THEN {}
    ELSE LET item == Head(items)
             mine == IF item.kind = "dir"
                     THEN lore_docs(item.items, Append(path, title_case(item.name)))
                     ELSE IF item.suffix = ".md" /\ ~is_quotes(item.stem)
                                                /\ item.stem # "cast"
                     THEN {[path |-> Append(path, item.stem),
                            blocks |-> render_story_blocks(item.content)]}
                     ELSE {}
         IN mine \cup lore_docs(Tail(items), path)

LocalDocs == lore_docs(LoreRoot, <<"GBF", "Character", DisplayName, "Lore">>)

RECURSIVE PagesAt(_, _, _)
\* the pages the titles of path lead to from the pages from
PagesAt(rem, from, path) ==
    IF path = <<>> THEN from
    ELSE PagesAt(rem, UNION {Titled(rem, p, "child_page", Head(path)) : p \in from},
                 Tail(path))

\* page id is alive and holds exactly blocks
HoldsBlocks(rem, id, blocks) ==
    /\ Live(rem, id)
    /\ rem[id].children = [i \in 1..Len(blocks) |-> BlockEntry(blocks[i])]

\* every local document has a live remote page that holds its blocks
AllDocsSynced ==
    \A d \in LocalDocs :
        \E id \in PagesAt(remote, {RootId}, d.path) : HoldsBlocks(remote, id, d.blocks)

\* the last run was a complete diff run, not a dry run and without --clean
DiffRun ==
    /\ last.op = "main"
    /\ last.ret = "saved"
    /\ mode = "diff" /\ ~dry_run /\ ~last.input.clean

\* C3: a dry run, in diff or force mode, with or without --clean, issues no remote
\* write, and the cache it saves is the cache it loaded.
C3_DryRunNeutral ==
    (last.op = "main" /\ dry_run) =>
        /\ Writes(last.calls) = {}
        /\ last.ret = "saved" => load_state(disk) = load_state(hist.loaded)

\* C5: the second of two complete diff runs over the same local files, the first
\* one starting from an empty remote page and no cache file, issues no remote write.
C5_RunIdempotent ==
    (/\ DiffRun
     /\ hist.runs = 2
     /\ hist.prev.ended = "saved" /\ hist.prev.mode = "diff"
     /\ ~hist.prev.dry /\ ~hist.prev.clean) => Writes(last.calls) = {}

\* C6: the complete diff run that follows a run that died before save() leaves every
\* local document with a live remote page holding exactly its blocks.
C6_CrashSafe ==
    (/\ DiffRun
     /\ hist.prev.op = "main" /\ hist.prev.ended = "died"
     /\ ~hist.prev.dry /\ ~hist.prev.clean) => AllDocsSynced

(***************************************************************************)
(* SpecCache: the cache of a SyncContext over a cache file of any content: *)
(* construction (load_state), _get_cached, _set_cached and save().         *)
(***************************************************************************)
\* self._cache.get(section, {}).get(key) on whatever value load_state returned: a
\* value that is not a dict has no get
ctx_get_cached(state, section, key) ==
    IF state.kind # "dict" THEN [raised |-> TRUE, ret |-> None]
    ELSE LET sec == IF section \in DOMAIN state.body THEN state.body[section]
                    ELSE JsonDict(EmptyMap)
         IN IF sec.kind # "dict" THEN [raised |-> TRUE, ret |-> None]
            ELSE [raised |-> FALSE, ret |-> MapGet(sec.body, key)]

\* self._cache.setdefault(section, {})[key] = value: a value that is not a dict has
\* no setdefault, and one that is not a dict takes no str key
ctx_set_cached(state, section, key, value) ==
    IF state.kind # "dict" THEN [raised |-> TRUE, state |-> state]
    ELSE LET sec == IF section \in DOMAIN state.body THEN state.body[section]
                    ELSE JsonDict(EmptyMap)
         IN IF sec.kind # "dict" THEN [raised |-> TRUE, state |-> state]
            ELSE [raised |-> FALSE,
                  state |-> JsonDict(MapPut(state.body, section,
                                            JsonDict(MapPut(sec.body, key, value))))]

Sections == {"page_ids", "hashes"}
CacheValues == {"v1", "v2"}

\* cache files: none, an empty one, a truncated one, a list, null, an empty dict, a
\* dict whose page_ids is a number, a dict with an unknown key only, a dict with
\* page_ids only
CacheFiles ==
    { MissingFile,
      TextFile(<<>>),
      TextFile(<<"{">>),
      TextFile(json_dumps(Json("list", EmptyMap))),
      TextFile(json_dumps(Json("null", EmptyMap))),
      TextFile(json_dumps(JsonDict(EmptyMap))),
      TextFile(json_dumps(JsonDict([page_ids |-> Json("0", EmptyMap)]))),
      TextFile(json_dumps(JsonDict([other |-> JsonDict(EmptyMap)]))),
      TextFile(json_dumps(JsonDict([page_ids |-> JsonDict([k1 |-> "v1"])]))) }

InitCache ==
    /\ remote = EmptyRemote
    /\ disk \in CacheFiles
    /\ cache = load_state(disk)
    /\ mode = "diff"
    /\ dry_run = FALSE
    /\ pc = "cache"
    /\ last = NoCall
    /\ hist = NoHist

CacheObserved(op, section, key, raised, ret) ==
    [op |-> op, id |-> 0, key |-> key, input |-> section, ret |-> ret,
     raised |-> raised, calls |-> <<>>, trace |-> <<>>, log |-> <<>>, failAt |-> 0]

\* a new SyncContext is constructed
Load ==
    /\ pc = "cache"
    /\ cache' = load_state(disk)
    /\ last' = CacheObserved("load", "", "", FALSE, None)
    /\ hist' = [NoHist EXCEPT !.loaded = disk]
    /\ UNCHANGED <<remote, disk, mode, dry_run, pc>>

GetCached ==
    /\ pc = "cache"
    /\ \E section \in Sections, key \in CacheKeys :
       \E r \in {ctx_get_cached(cache, section, key)} :
           /\ last' = CacheObserved("get", section, key, r.raised, r.ret)
           /\ hist' = [NoHist EXCEPT !.loaded = disk]
           /\ UNCHANGED <<remote, cache, disk, mode, dry_run, pc>>

SetCached ==
    /\ pc = "cache"
    /\ \E section \in Sections, key \in CacheKeys, value \in CacheValues :
       \E r \in {ctx_set_cached(cache, section, key, value)} :
           /\ cache' = r.state
           /\ last' = CacheObserved("set", section, key, r.raised, None)
           /\ hist' = [NoHist EXCEPT !.loaded = disk]
           /\ UNCHANGED <<remote, disk, mode, dry_run, pc>>

\* save(): the write completes, or it fails or the process dies after written tokens
Save ==
    /\ pc = "cache"
    /\ \E written \in 0..Len(json_dumps(cache)) :
           /\ disk' = save_state(disk, cache, written)
           /\ last' = CacheObserved("save", "", "", FALSE,
                                    IF written = Len(json_dumps(cache)) THEN "ok"
                                    ELSE "failed")
           /\ hist' = [NoHist EXCEPT !.loaded = disk]
           /\ UNCHANGED <<remote, cache, mode, dry_run, pc>>

NextCache ==
    \/ Load
    \/ GetCached
    \/ SetCached
    \/ Save

SpecCache == InitCache /\ [][NextCache]_vars

\* C7: save() is all-or-nothing: when the write completes the file holds the text
\* of the state (so saving the same state again leaves the same content), and when
\* the write fails or the process dies during it the file is as it was before.
C7_AtomicSave ==
    last.op = "save" =>
        IF last.ret = "ok" THEN disk = TextFile(json_dumps(cache))
        ELSE (hist.loaded.exists /\ ~json_loads(hist.loaded.text).raised)
                 => disk = hist.loaded

\* the file does not hold a dict whose namespaces, where present, are dicts
Corrupt(file) ==
    /\ file.exists
    /\ LET v == json_loads(file.text)
       IN \/ v.raised
          \/ v.kind # "dict"
          \/ \E section \in Sections \cap DOMAIN v.body : v.body[section].kind # "dict"

\* C8: load never makes a later get or set raise, and a corrupt file (unparsable, or
\* not an object of the expected shape) yields an empty cache.
C8_TolerantLoad ==
    /\ last.op \in {"get", "set"} => ~last.raised
    /\ (last.op = "load" /\ Corrupt(disk)) => cache = JsonDict(EmptyMap)

(***************************************************************************)
(* SpecList: get_child_block_by_title over a parent with any listing of    *)
(* blocks, child pages and child databases.                                *)
(***************************************************************************)
MaxListing == 5

\* what a child of the parent may be
ChildKinds ==
    {[type |-> "paragraph", title |-> ""]} \cup
    {[type |-> t, title |-> title] : t \in Containers, title \in Titles}

SeqsUpTo(S, n) == UNION {[1..k -> S] : k \in 0..n}

\* the remote store after a child of kind k is added under the root
AddChild(rem, k) ==
    IF k.type \in Containers
    THEN create_container(World(rem, EmptyCache, 0), "create", RootId, k.type,
                          k.title).w.remote
    ELSE blocks_children_append(World(rem, EmptyCache, 0), RootId,
                                <<Para(<<"a">>)>>).w.remote

RECURSIVE AddChildren(_, _)
AddChildren(rem, kinds) ==
    IF kinds = <<>> THEN rem
    ELSE Only({AddChildren(r, Tail(kinds)) : r \in {AddChild(rem, Head(kinds))}})

InitList ==
    /\ remote \in {AddChildren(EmptyRemote, kinds) : kinds \in SeqsUpTo(ChildKinds, MaxListing)}
    /\ cache = EmptyCache
    /\ disk = EmptyCache
    /\ mode = "diff"
    /\ dry_run = FALSE
    /\ pc = "list"
    /\ last = NoCall
    /\ hist = NoHist

FindChild ==
    /\ pc = "list"
    /\ \E title \in Titles, f \in FailPoints :
       \E r \in {get_child_block_by_title(World(remote, cache, f), RootId, title)} :
           /\ last' = Observed("get_child_block_by_title", RootId, title, <<>>, r)
           /\ UNCHANGED <<remote, cache, disk, mode, dry_run, pc, hist>>

NextList == FindChild

SpecList == InitList /\ [][NextList]_vars

Listing == remote[RootId].children

\* the positions in the listing of the child pages and databases titled title
Matches(title) ==
    {i \in 1..Len(Listing) : Listing[i].type \in Containers /\ Listing[i].title = title}

\* the requests start at the first page and each later one carries the next_cursor
\* of the response before it, which had has_more set
FollowsCursors(calls) ==
    /\ calls # <<>>
    /\ calls[1] = Request("list", RootId, 0)
    /\ \A k \in 2..Len(calls) :
           /\ ListPage(Listing, calls[k - 1].cursor).has_more
           /\ calls[k] = Request("list", RootId,
                                 ListPage(Listing, calls[k - 1].cursor).next_cursor)

\* C9: get_child_block_by_title, when no request fails, returns a child page or
\* database with the title whenever the listing holds one on any page; its requests
\* follow the cursors from the first page; and it returns None only after the page
\* whose has_more is false.
C9_FindsOnAnyPage ==
    (last.op = "get_child_block_by_title" /\ ~last.raised) =>
        /\ Matches(last.key) # {} =>
               /\ last.ret # None
               /\ \E i \in Matches(last.key) : last.ret = Some(Listing[i])
        /\ FollowsCursors(last.calls)
        /\ last.ret = None =>
               ~ListPage(Listing, last.calls[Len(last.calls)].cursor).has_more

\* the only child with the title is on the third page of the listing, and is returned
C9_Witness ==
    /\ last.op = "get_child_block_by_title"
    /\ ~last.raised
    /\ \E i \in Matches(last.key) :
           /\ i > 2 * PageSize
           /\ Matches(last.key) = {i}
           /\ last.ret = Some(Listing[i])
    /\ Len(last.calls) = 3

(***************************************************************************)
(* SpecVoice: parse_voice_table over the text of a voice table with any    *)
(* data rows, parsed twice.                                                *)
(***************************************************************************)
MaxVoiceRows == 3

VoiceHeader == TableLine(<<"Label", "Japanese">>)

\* a data row: a label or none, a Japanese text or none
VoiceRowLines ==
    {TableLine(<<label, jp>>) : label \in {"", "Smile", "Nod"},
                                jp \in {"", "a", "b", "c", Long35}}

\* what comes before the data rows: a header and its separator, a header alone, a
\* line of text after the separator
VoicePreambles ==
    {<<VoiceHeader, SepLine>>, <<VoiceHeader>>, <<VoiceHeader, SepLine, TextLine>>}

VoiceTables ==
    {pre \o data : pre \in VoicePreambles, data \in SeqsUpTo(VoiceRowLines, MaxVoiceRows)}

InitVoice ==
    /\ remote = EmptyRemote
    /\ cache = EmptyCache
    /\ disk = EmptyCache
    /\ mode = "diff"
    /\ dry_run = FALSE
    /\ pc = "voice"
    /\ last \in {[NoCall EXCEPT !.input = content] : content \in VoiceTables}
    /\ hist = NoHist

ParseVoiceTable ==
    /\ pc = "voice"
    /\ hist.runs < 2
    /\ \E rows \in {parse_voice_table(last.input)} :
           /\ last' = [last EXCEPT !.op = "parse_voice_table", !.ret = rows]
           /\ hist' = [hist EXCEPT !.runs = @ + 1, !.before = last.ret]
    /\ UNCHANGED <<remote, cache, disk, mode, dry_run, pc>>

NextVoice == ParseVoiceTable

SpecVoice == InitVoice /\ [][NextVoice]_vars

Labels(rows) == [i \in 1..Len(rows) |-> rows[i].Label]

\* the text is a header, its separator and data rows that all hold a Japanese text,
\* so that line i + 2 of the text makes record i
AllRowsKept(content) ==
    /\ Len(content) > 2
    /\ SubSeq(content, 1, 2) = <<VoiceHeader, SepLine>>
    /\ \A i \in 3..Len(content) :
           /\ content[i].kind = "table"
           /\ Len(content[i].cells) = 2
           /\ content[i].cells[2].text # ""

LabelCell(content, i) == content[i].cells[1].text

\* the labelled line a blank-label line i inherits from (0: none)
LabelledBefore(content, i) ==
    LET js == {j \in 3..(i - 1) : LabelCell(content, j) # ""}
    IN IF js = {} THEN 0 ELSE CHOOSE j \in js : \A k \in js : k <= j

\* C11: a data row with a blank label that follows a labelled row gets that label
\* with " #<n>", n counting the consecutive blank-label rows under the label from 1.
C11_InheritedLabels ==
    (last.op = "parse_voice_table" /\ AllRowsKept(last.input)) =>
        \A i \in 3..Len(last.input) :
            LET j == LabelledBefore(last.input, i)
            IN (LabelCell(last.input, i) = "" /\ j > 0) =>
                   last.ret[i - 2].Label =
                       LabelCell(last.input, j) \o " #" \o ToString(i - j)

\* C12: the labels of the records of one table are pairwise distinct, and parsing
\* the same text again gives the same records.
C12_UniqueLabels ==
    last.op = "parse_voice_table" =>
        /\ \A i, j \in 1..Len(last.ret) :
               i # j => last.ret[i].Label # last.ret[j].Label
        /\ hist.runs = 2 => last.ret = hist.before

(***************************************************************************)
(* SpecHash: the content hash of sync_page_blocks over lists of blocks,    *)
(* taken again after the text of a block is altered or two blocks are      *)
(* swapped.                                                                *)
(***************************************************************************)
MaxBlocks == 2
MaxText == 2

\* the text of a block: letters, a space, a line break
BlockTexts == SeqsUpTo({"a", "b", " ", "\n"}, MaxText)
BlockLists == SeqsUpTo({Para(content) : content \in BlockTexts}, MaxBlocks)

InitHash ==
    /\ remote = EmptyRemote
    /\ cache = EmptyCache
    /\ disk = EmptyCache
    /\ mode = "diff"
    /\ dry_run = FALSE
    /\ pc = "hash"
    /\ last \in {[NoCall EXCEPT !.input = blocks, !.ret = desired_hash_of(blocks)] :
                     blocks \in BlockLists}
    /\ hist = NoHist

\* the hash of new blocks, after that of the blocks before
Hashed(op, blocks) ==
    /\ hist.runs < 2
    /\ \E h \in {desired_hash_of(blocks)} :
           last' = [last EXCEPT !.op = op, !.input = blocks, !.ret = h]
    /\ hist' = [hist EXCEPT !.runs = @ + 1, !.before = last.ret]
    /\ UNCHANGED <<remote, cache, disk, mode, dry_run, pc>>

HashAgain ==
    /\ pc = "hash"
    /\ Hashed("hash", last.input)

AlterBlock ==
    /\ pc = "hash"
    /\ \E i \in 1..Len(last.input), content \in BlockTexts :
           /\ content # last.input[i].content
           /\ Hashed("alter", [last.input EXCEPT ![i] = Para(content)])

SwapBlocks ==
    /\ pc = "hash"
    /\ \E i, j \in 1..Len(last.input) :
           /\ i < j
           /\ last.input[i].content # last.input[j].content
           /\ Hashed("swap", [last.input EXCEPT ![i] = last.input[j],
                                                ![j] = last.input[i]])

NextHash == HashAgain \/ AlterBlock \/ SwapBlocks

SpecHash == InitHash /\ [][NextHash]_vars

\* C13: the hash changes when the text of one block is altered or two blocks with
\* different text are swapped, and the same blocks always give the same hash.
C13_HashSensitive ==
    /\ last.op \in {"alter", "swap"} => last.ret # hist.before
    /\ last.op = "hash" => last.ret = hist.before

(***************************************************************************)
(* SpecNormalize: normalize_text_for_diff over texts, taken again after a  *)
(* run of blank lines is made one line longer, and of its own result.      *)
(***************************************************************************)
MaxNormText == 4

NormTexts == SeqsUpTo({"a", " ", "\n", "\r"}, MaxNormText)

InitNormalize ==
    /\ remote = EmptyRemote
    /\ cache = EmptyCache
    /\ disk = EmptyCache
    /\ mode = "diff"
    /\ dry_run = FALSE
    /\ pc = "normalize"
    /\ last \in {[NoCall EXCEPT !.input = text] : text \in NormTexts}
    /\ hist = NoHist

Normalized(op, text) ==
    /\ hist.runs < 3
    /\ \E t \in {normalize_text_for_diff(text)} :
           last' = [last EXCEPT !.op = op, !.input = text, !.ret = t]
    /\ hist' = [hist EXCEPT !.runs = @ + 1, !.before = last.ret]
    /\ UNCHANGED <<remote, cache, disk, mode, dry_run, pc>>

\* position i of the text ends an empty line
EndsEmptyLine(text, i) ==
    text[i] = "\n" /\ (IF i = 1 THEN TRUE ELSE text[i - 1] = "\n")

\* the text is normalized
NormalizeText ==
    /\ pc = "normalize"
    /\ last.op = "none"
    /\ Normalized("normalize", last.input)

\* the text with one more empty line next to an empty line it has
LengthenBlankRun ==
    /\ pc = "normalize"
    /\ last.op # "none"
    /\ \E i \in 1..Len(last.input) :
           /\ EndsEmptyLine(last.input, i)
           /\ Normalized("lengthen", SubSeq(last.input, 1, i) \o <<"\n">> \o
                                     SubSeq(last.input, i + 1, Len(last.input)))

\* the normalized text is normalized again
NormalizeAgain ==
    /\ pc = "normalize"
    /\ last.op # "none"
    /\ Normalized("again", last.ret)

NextNormalize == NormalizeText \/ LengthenBlankRun \/ NormalizeAgain

SpecNormalize == InitNormalize /\ [][NextNormalize]_vars

\* the lines of a text that are empty
BlankLines(text) ==
    LET lines == SplitLines(text, <<>>)
    IN {i \in 1..Len(lines) : lines[i] = <<>>}

\* C14: the normalized text holds no two blank lines in a row and no trailing blank
\* line; a text with a longer run of blank lines normalizes to the same text; and a
\* normalized text normalizes to itself.
C14_BlankRunsCollapse ==
    last.op # "none" =>
    /\ \A i \in BlankLines(last.ret) :
           /\ last.ret # <<>> => i < Len(SplitLines(last.ret, <<>>))
           /\ (i + 1) \notin BlankLines(last.ret)
    /\ last.op = "lengthen" => last.ret = hist.before
    /\ last.op = "again" => last.ret = last.input

(***************************************************************************)
(* The text splitter of render.py.  A paragraph is long, so a text is held *)
(* as its length and the positions (from 0) of its spaces; every other     *)
(* character is a letter.                                                  *)
(***************************************************************************)
max_len == 1800

LongText(len, spaces) == [len |-> len, spaces |-> spaces]

\* s[a:b]
Slice(s, a, b) ==
    LongText(b - a, {i - a : i \in {j \in s.spaces : a <= j /\ j < b}})

RECURSIVE LStripText(_)
LStripText(s) ==
    IF s.len > 0 /\ 0 \in s.spaces THEN LStripText(Slice(s, 1, s.len)) ELSE s

RECURSIVE RStripText(_)
RStripText(s) ==
    IF s.len > 0 /\ (s.len - 1) \in s.spaces THEN RStripText(Slice(s, 0, s.len - 1))
    ELSE s

\* s.strip()
StripText(s) == RStripText(LStripText(s))

\* s.rfind(" ", 0, max_len)
rfind_space(s) ==
    LET before == {i \in s.spaces : i < max_len}
    IN IF before = {} THEN -1 ELSE CHOOSE i \in before : \A j \in before : j <= i

\* the cut of one round of the while loop: the last space before max_len, or max_len
\* when that space is before position 200 or there is none
cut_of(s) == IF rfind_space(s) < 200 THEN max_len ELSE rfind_space(s)

RECURSIVE split_loop(_, _, _)
\* the while loop; cuts remembers the text and the cut of every round
split_loop(s, out, cuts) ==
    IF s.len > max_len
    THEN Only({split_loop(StripText(Slice(s, cut, s.len)),
                          Append(out, StripText(Slice(s, 0, cut))),
                          Append(cuts, [s |-> s, cut |-> cut])) : cut \in {cut_of(s)}})
    ELSE [out |-> IF s.len > 0 THEN Append(out, s) ELSE out, cuts |-> cuts]

split_text(s) ==
    IF StripText(s).len = 0 THEN [out |-> <<>>, cuts |-> <<>>]
    ELSE split_loop(StripText(s), <<>>, <<>>)

(***************************************************************************)
(* SpecSplit: _split_text over texts of several lengths with spaces at any *)
(* of a few positions.                                                     *)
(***************************************************************************)
MaxSpaces == 2

TextLengths == {0, 1, 1800, 1801, 3600, 5000}
\* where a space may be: at the ends, around position 200, around the limit, between
SpacePoints == {0, 150, 199, 200, 201, 1000, 1700, 1799, 1800, 1801, 2000, 3199, 3200, 4999}

LongTexts ==
    {LongText(len, spaces) :
        len \in TextLengths,
        spaces \in {sp \in SUBSET SpacePoints : Cardinality(sp) <= MaxSpaces}}

InitSplit ==
    /\ remote = EmptyRemote
    /\ cache = EmptyCache
    /\ disk = EmptyCache
    /\ mode = "diff"
    /\ dry_run = FALSE
    /\ pc = "split"
    /\ last \in {[NoCall EXCEPT !.input = s] :
                    s \in {t \in LongTexts : \A i \in t.spaces : i < t.len}}
    /\ hist = NoHist

SplitText ==
    /\ pc = "split"
    /\ last.op = "none"
    /\ \E r \in {split_text(last.input)} :
           last' = [last EXCEPT !.op = "_split_text", !.ret = r]
    /\ UNCHANGED <<remote, cache, disk, mode, dry_run, pc, hist>>

NextSplit == SplitText

SpecSplit == InitSplit /\ [][NextSplit]_vars

\* C15: a cut is at the last space before the limit, or at the limit, and then no
\* space is in the 200 characters before the limit; and a text of 5000 characters
\* with no space in its last 1800 is split into exactly 3 pieces, each non-empty and
\* at most 1800 long.
C15_SplitInThree ==
    last.op = "_split_text" =>
        /\ \A k \in 1..Len(last.ret.cuts) :
               LET c == last.ret.cuts[k]
               IN IF c.cut = max_len
                  THEN \A i \in c.s.spaces : ~(max_len - 200 <= i /\ i < max_len)
                  ELSE c.cut = rfind_space(c.s)
        /\ (last.input.len = 5000 /\ \A i \in last.input.spaces : i < 5000 - 1800) =>
               /\ Len(last.ret.out) = 3
               /\ \A k \in 1..Len(last.ret.out) :
                      last.ret.out[k].len > 0 /\ last.ret.out[k].len <= max_len

(***************************************************************************)
(* SpecUnit: one local file synced under the root page by sync_md_to_page  *)
(* or as the quotes file of a lore folder, with or without content.        *)
(***************************************************************************)
\* files synced one after the other
MaxUnits == 2

\* documents: empty, blank lines only, one line
UnitDocs == {MdFile("a", <<>>), MdFile("a", <<"", "">>), MdFile("a", <<"x">>)}
\* cast tables: empty, a row without an image, a row
UnitCasts == {MdFile("cast", <<>>), MdFile("cast", <<CastRecord("N", NoUrl, "")>>),
              MdFile("cast", <<CastRecord("N", GbfThumb, "")>>)}
\* voice tables: empty, a header only, a row without text, a row
UnitQuotes ==
    {MdFile("quotes", <<>>), MdFile("quotes", <<VoiceHeader, SepLine>>),
     MdFile("quotes", <<VoiceHeader, SepLine, TableLine(<<"L", "">>)>>),
     MdFile("quotes", <<VoiceHeader, SepLine, TableLine(<<"L", "j">>)>>)}

InitUnit ==
    /\ remote = EmptyRemote
    /\ cache = EmptyCache
    /\ disk = EmptyCache
    /\ mode = "diff"
    /\ dry_run = FALSE
    /\ pc = "unit"
    /\ last = NoCall
    /\ hist = NoHist

\* the world w the call left becomes the state; the cache the call started from is kept
CommitUnit(op, md_file, w, md, dry) ==
    /\ hist.runs < MaxUnits
    /\ WithinRows(w.remote)
    /\ remote' = w.remote
    /\ cache' = w.cache
    /\ mode' = md
    /\ dry_run' = dry
    /\ last' = Observed(op, RootId, md_file.stem, md_file.content, Result(w, FALSE, None))
    /\ hist' = [hist EXCEPT !.before = cache, !.runs = @ + 1]
    /\ UNCHANGED <<disk, pc>>

SyncDocument ==
    /\ pc = "unit"
    /\ \E md_file \in UnitDocs, md \in {"diff", "force"}, dry \in BOOLEAN,
          is_profile \in BOOLEAN, f \in FailPoints :
       \E w \in {sync_md_to_page(World(remote, cache, f), md, dry, RootId, md_file,
                                 LorePrefix(CharFolder, "profile"), is_profile)} :
           CommitUnit("sync_md_to_page", md_file, w, md, dry)

SyncCastTable ==
    /\ pc = "unit"
    /\ \E md_file \in UnitCasts, md \in {"diff", "force"}, dry \in BOOLEAN,
          f \in FailPoints :
       \E w \in {sync_md_to_page(World(remote, cache, f), md, dry, RootId, md_file,
                                 LorePrefix(CharFolder, "profile"), TRUE)} :
           CommitUnit("sync_md_to_page", md_file, w, md, dry)

SyncQuotes ==
    /\ pc = "unit"
    /\ \E file_item \in UnitQuotes, md \in {"diff", "force"}, dry \in BOOLEAN,
          f \in FailPoints :
       \E w \in {sync_lore_file(World(remote, cache, f), md, dry, RootId,
                                Dir("profile", <<file_item>>), file_item, CharFolder)} :
           CommitUnit("sync_lore_content", file_item, w, md, dry)

NextUnit == SyncDocument \/ SyncCastTable \/ SyncQuotes

SpecUnit == InitUnit /\ [][NextUnit]_vars

\* the file of the last call has no content: it renders to no block or parses to no
\* record
EmptyUnit ==
    /\ last.op \in {"sync_md_to_page", "sync_lore_content"}
    /\ IF last.key = "cast" THEN parse_cast_table(last.input) = <<>>
       ELSE IF last.key = "quotes" THEN parse_voice_table(last.input) = <<>>
       ELSE render_story_blocks(last.input) = <<>>
            /\ render_profile_blocks(last.input) = <<>>

\* C18: the sync of a file without content logs no error, issues no remote write and
\* leaves the cache as it was.
C18_EmptyUnitNoEffect ==
    EmptyUnit =>
        /\ \A i \in 1..Len(last.log) : last.log[i].msg # "ERROR"
        /\ Writes(last.calls) = {}
        /\ cache = hist.before

(***************************************************************************)
(* SpecAdapter: the operations of lib/notion/sync.py called one by one on  *)
(* a page that holds blocks and a dataset that holds rows, with any one    *)
(* request failing.                                                        *)
(***************************************************************************)
MaxAdapterCalls == 2

PageId == 2
DatasetId == 3

\* the root holds page A with three blocks and dataset B with three rows
AdapterRemote ==
    LET w0 == World(EmptyRemote, EmptyCache, 0)
        w1 == create_container(w0, "create", RootId, "child_page", "A").w
        w2 == create_container(w1, "create_db", RootId, "child_database", "B").w
        w3 == blocks_children_append(w2, PageId,
                                     <<Para(<<"a">>), Para(<<"b">>), Para(<<"a">>)>>).w
        w4 == create_database_row(w3, DatasetId, [Name |-> "N"]).w
        w5 == create_database_row(w4, DatasetId, [Name |-> "M"]).w
    IN create_database_row(w5, DatasetId, [Name |-> "N"]).w.remote

InitAdapter ==
    /\ remote = AdapterRemote
    /\ cache = EmptyCache
    /\ disk = EmptyCache
    /\ mode = "diff"
    /\ dry_run = FALSE
    /\ pc = "adapter"
    /\ last = NoCall
    /\ hist = NoHist

CommitAdapter(op, id, key, r) ==
    /\ hist.runs < MaxAdapterCalls
    /\ remote' = r.w.remote
    /\ last' = Observed(op, id, key, <<>>, r)
    /\ hist' = [hist EXCEPT !.runs = @ + 1]
    /\ UNCHANGED <<cache, disk, mode, dry_run, pc>>

CallGetChildBlockByTitle ==
    /\ pc = "adapter"
    /\ \E title \in Titles, f \in FailPoints :
       \E r \in {get_child_block_by_title(World(remote, cache, f), RootId, title)} :
           CommitAdapter("get_child_block_by_title", RootId, title, r)

CallClearPageBlocks ==
    /\ pc = "adapter"
    /\ \E f \in FailPoints :
       \E r \in {clear_page_blocks(World(remote, cache, f), PageId)} :
           CommitAdapter("clear_page_blocks", PageId, "", r)

CallAppendBlocks ==
    /\ pc = "adapter"
    /\ \E children \in Docs, f \in FailPoints :
       \E r \in {append_blocks(World(remote, cache, f), PageId, children)} :
           CommitAdapter("append_blocks", PageId, "", r)

CallEnsurePageOf ==
    /\ pc = "adapter"
    /\ \E title \in Titles, f \in FailPoints :
       \E r \in {ensure_page(World(remote, cache, f), RootId, title)} :
           CommitAdapter("ensure_page", RootId, title, r)

CallQueryDataSource ==
    /\ pc = "adapter"
    /\ \E f \in FailPoints :
       \E r \in {query_data_source(World(remote, cache, f), DatasetId)} :
           CommitAdapter("query_data_source", DatasetId, "", r)

CallCreateDatabaseRow ==
    /\ pc = "adapter"
    /\ \E name \in {"N", "M"}, f \in FailPoints :
       \E r \in {create_database_row(World(remote, cache, f), DatasetId, [Name |-> name])} :
           CommitAdapter("create_database_row", DatasetId, name, r)

CallUpdateDatabaseRow ==
    /\ pc = "adapter"
    /\ \E n \in 1..Len(remote[DatasetId].children), f \in FailPoints :
       \E r \in {update_database_row(World(remote, cache, f), <<DatasetId, n>>,
                                     [Name |-> "M"])} :
           CommitAdapter("update_database_row", DatasetId, "M", r)

NextAdapter ==
    \/ CallGetChildBlockByTitle
    \/ CallClearPageBlocks
    \/ CallAppendBlocks
    \/ CallEnsurePageOf
    \/ CallQueryDataSource
    \/ CallCreateDatabaseRow
    \/ CallUpdateDatabaseRow

SpecAdapter == InitAdapter /\ [][NextAdapter]_vars

\* one of the requests of the last call failed
RequestFailed == last.op # "none" /\ last.failAt \in 1..Len(last.calls)

\* C19: when a request of an adapter operation fails, the operation raises and makes
\* no request after the failed one.
C19_ErrorsSurface ==
    RequestFailed => (last.raised /\ Len(last.calls) = last.failAt)

(***************************************************************************)
(* SpecClean: runs of the uploader, with and without --clean, over local   *)
(* files that are documents only, against a remote store that never fails  *)
(* of its own.                                                             *)
(***************************************************************************)
\* characters/c/lore/trans: a document at the root and one in a folder
DocsRoot ==
    << MdFile("intro", <<"z">>),
       Dir("profile", << MdFile("a", <<"x">>) >>) >>

RunDocs ==
    /\ pc = "run"
    /\ hist.runs < MaxRuns
    /\ \E md \in {"diff", "force"}, dry \in BOOLEAN, clean \in BOOLEAN :
       \E run \in {main(remote, disk, md, dry, clean, 0, DocsRoot)} :
           /\ remote' = run.remote
           /\ cache' = run.cache
           /\ disk' = run.file
           /\ mode' = md
           /\ dry_run' = dry
           /\ last' = [op |-> "main", id |-> RootId, key |-> "",
                       input |-> [clean |-> clean], ret |-> run.ended,
                       raised |-> run.ended = "raised", calls |-> run.calls,
                       trace |-> <<>>, log |-> run.log, failed |-> run.failed]
           /\ hist' = [NoHist EXCEPT !.runs = hist.runs + 1, !.prev = LastRun,
                                     !.loaded = disk]
           /\ UNCHANGED pc

NextClean == RunDocs

SpecClean == InitRun /\ [][NextClean]_vars

\* every document of DocsRoot has a live remote page that holds its blocks
DocsSynced ==
    \A d \in lore_docs(DocsRoot, <<"GBF", "Character", DisplayName, "Lore">>) :
        \E id \in PagesAt(remote, {RootId}, d.path) : HoldsBlocks(remote, id, d.blocks)

\* the last run was a complete run with --clean, not a dry run, none of whose requests
\* got an error
CleanRun ==
    /\ last.op = "main"
    /\ last.ret = "saved"
    /\ last.input.clean /\ ~dry_run
    /\ last.failed = 0

\* C20: at the end of a clean run that met no remote error every local document has
\* a live remote page that holds its rendered blocks, also when the run loaded the
\* cache file of an earlier run.
C20_CleanReuploads == CleanRun => DocsSynced

(***************************************************************************)
(* SpecTable: parse_voice_table over texts with a five-column header (or   *)
(* none, or one without its separator) and data rows of one to five cells, *)
(* each cell filled or empty.                                              *)
(***************************************************************************)
MaxTableRows == 2

TableHeader == TableLine(<<"Label", "Japanese", "Chinese", "English", "Audio">>)

\* an Audio cell: empty, a link to a sound file, a text that is no address
AudioCells == {TextCell(""), Cell("[play](u)", OtherUrl), TextCell("n/a")}

\* a data row: the first n cells of a label, three texts and an audio cell
TableRowLines ==
    {Line("table", FALSE,
          SubSeq(<<TextCell(label), TextCell(jp), TextCell(cn), TextCell(en), audio>>, 1, n)) :
        label \in {"", "L"}, jp \in {"", "a"}, cn \in {"", "b"}, en \in {"", "e"},
        audio \in AudioCells, n \in 1..5}

\* what comes before the data rows: a header and its separator, a header without
\* separator, nothing
TablePreambles == {<<TableHeader, SepLine>>, <<TableHeader>>, <<>>}

Tables ==
    {pre \o data : pre \in TablePreambles, data \in SeqsUpTo(TableRowLines, MaxTableRows)}

InitTable ==
    /\ remote = EmptyRemote
    /\ cache = EmptyCache
    /\ disk = EmptyCache
    /\ mode = "diff"
    /\ dry_run = FALSE
    /\ pc = "table"
    /\ last \in {[NoCall EXCEPT !.input = content] : content \in Tables}
    /\ hist = NoHist

ParseTable ==
    /\ pc = "table"
    /\ hist.runs < 1
    /\ \E rows \in {parse_voice_table(last.input)} :
           /\ last' = [last EXCEPT !.op = "parse_voice_table", !.ret = rows]
           /\ hist' = [hist EXCEPT !.runs = @ + 1]
    /\ UNCHANGED <<remote, cache, disk, mode, dry_run, pc>>

NextTable == ParseTable

SpecTable == InitTable /\ [][NextTable]_vars

\* the lines of the text that are data rows: table lines that are neither a
\* separator nor a header
DataRows(content) ==
    {i \in 1..Len(content) :
        /\ content[i].kind = "table"
        /\ ~content[i].dashes
        /\ content[i] # TableHeader}

\* the data rows that have a cell for every column of the header
FullRows(content) ==
    {i \in DataRows(content) : Len(content[i].cells) >= Len(TableHeader.cells)}

\* C21: the parsers return at most one record per data row, and a data row with
\* fewer cells than the header has columns gives no record.
C21_ShortRowsSkipped ==
    last.op = "parse_voice_table" => Len(last.ret) <= Cardinality(FullRows(last.input))

\* the cell of data row line under the n-th column of the header (empty if missing)
CellAt(line, n) == IF n <= Len(line.cells) THEN line.cells[n] ELSE TextCell("")

\* the row holds an audio address or a text in one of the three languages
Meaningful(line) ==
    \/ \E n \in 2..4 : CellAt(line, n).text # ""
    \/ CellAt(line, 5).url # NoUrl

\* the text is the header, its separator and data rows
HeadedTable(content) ==
    /\ Len(content) >= 2
    /\ SubSeq(content, 1, 2) = <<TableHeader, SepLine>>

\* C26: of the data rows under a header, exactly those without audio and without a
\* text in any language are discarded; a returned row with a label hands its label
\* to the rows without label after it.
C26_DiscardRule ==
    (last.op = "parse_voice_table" /\ HeadedTable(last.input)) =>
        LET data == SubSeq(last.input, 3, Len(last.input))
            kept == SelectSeq(data, Meaningful)
        IN /\ Len(last.ret) = Len(kept)
           /\ \A k \in 1..Len(kept) :
                  /\ Field(last.ret[k], "Japanese", "") = CellAt(kept[k], 2).text
                  /\ Field(last.ret[k], "Chinese", "") = CellAt(kept[k], 3).text
                  /\ Field(last.ret[k], "English", "") = CellAt(kept[k], 4).text
                  /\ Field(last.ret[k], "Audio", NoUrl) = CellAt(kept[k], 5).url
                  /\ CellAt(kept[k], 1).text # "" =>
                         last.ret[k].Label = CellAt(kept[k], 1).text
                  /\ (k > 1 /\ CellAt(kept[k], 1).text = ""
                            /\ CellAt(kept[k - 1], 1).text # "") =>
                         \E n \in 1..(MaxTableRows + 1) :
                             last.ret[k].Label =
                                 CellAt(kept[k - 1], 1).text \o " #" \o ToString(n)

(***************************************************************************)
(* SpecRewrite: sync_page_blocks (with clearing) on a page that holds any  *)
(* blocks and containers, by contexts of either mode over one cache, with  *)
(* any one request of a call failing.                                      *)
(***************************************************************************)
\* children of the page before the first call
MaxOld == 3
\* sync_page_blocks calls in a behaviour
MaxRewrites == 2
\* the request that fails is among the first MaxRewriteFail of a call
MaxRewriteFail == 7

\* what a child of the page may be before the first call
OldKinds ==
    { [type |-> "paragraph", title |-> ""],
      [type |-> "child_page", title |-> "A"],
      [type |-> "child_database", title |-> "B"] }

InitRewrite ==
    /\ remote \in {AddChildren(EmptyRemote, kinds) : kinds \in SeqsUpTo(OldKinds, MaxOld)}
    /\ cache = EmptyCache
    /\ disk = EmptyCache
    /\ mode = "diff"
    /\ dry_run = FALSE
    /\ pc = "rewrite"
    /\ last = NoCall
    /\ hist = NoHist

\* a context of mode md over the cache calls sync_page_blocks for the page; request
\* f of the call fails (0: none)
CallRewrite ==
    /\ pc = "rewrite"
    /\ hist.runs < MaxRewrites
    /\ \E md \in {"diff", "force"}, blocks \in Docs, cache_key \in CacheKeys,
          f \in 0..MaxRewriteFail :
       \E r \in {sync_page_blocks(World(remote, cache, f), md, FALSE,
                                   RootId, blocks, cache_key, FALSE)} :
           /\ f <= Len(r.w.calls)
           /\ remote' = r.w.remote
           /\ cache' = r.w.cache
           /\ mode' = md
           /\ last' = Observed("sync_page_blocks", RootId, cache_key, blocks, r)
           /\ hist' = [hist EXCEPT !.runs = @ + 1,
                                   !.before = [children |-> remote[RootId].children,
                                               cache |-> cache]]
    /\ UNCHANGED <<disk, dry_run, pc>>

NextRewrite == CallRewrite

SpecRewrite == InitRewrite /\ [][NextRewrite]_vars

IsContainer(e) == e.type \in Containers

\* C22: after a sync_page_blocks call that rewrote the page and returned True the
\* page's children are its earlier child pages and databases, all still there,
\* followed by the new blocks in order, and the cache holds the hash of the new
\* blocks under the cache key.
C22_RewritePostcondition ==
    (last.op = "sync_page_blocks" /\ ~last.raised /\ last.ret = TRUE) =>
        /\ remote[RootId].children =
               SelectSeq(hist.before.children, IsContainer) \o
               [i \in 1..Len(last.input) |-> BlockEntry(last.input[i])]
        /\ \A i \in 1..Len(hist.before.children) :
               IsContainer(hist.before.children[i]) =>
                   Live(remote, hist.before.children[i].id)
        /\ get_cached(cache, "hashes", last.key) = Some(desired_hash_of(last.input))

\* C30: a sync_page_blocks call that raises leaves the cache as it was, and the
\* cache then does not hold the hash of the call's blocks under its key, so that
\* the test of line 116 fails in the next diff-mode call with these blocks.
C30_HashAfterCompleteWrite ==
    (last.op = "sync_page_blocks" /\ last.raised) =>
        /\ cache = hist.before.cache
        /\ ~hash_matches(get_cached(cache, "hashes", last.key),
                         desired_hash_of(last.input))

(***************************************************************************)
(* The document unit of sync_md_to_page in SpecUnit: recreate_page in      *)
(* force mode, ensure_page in diff mode.                                   *)
(***************************************************************************)
\* the last call synced a document (not a table) and logged msg
DocumentLogged(msg) ==
    /\ last.op = "sync_md_to_page"
    /\ last.key \notin {"cast", "quotes"}
    /\ \E i \in 1..Len(last.log) : last.log[i].msg = msg

\* the requests that delete a page or a database (those for a block carry no id)
ContainerDeletes(calls) == {i \in 1..Len(calls) : calls[i].op = "delete" /\ calls[i].id # 0}

\* C23: a document synced in force mode is logged as recreated, never as skipped or
\* updated; its parent then holds exactly one page with its title, a page made by the
\* call whose id is not the one cached before, and the cache maps (parent, title) to
\* it.  A document synced in diff mode is never recreated: no page is deleted.
C23_RecreatePostcondition ==
    /\ (DocumentLogged("skipped") \/ DocumentLogged("updated")) => mode # "force"
    /\ DocumentLogged("recreated") =>
           /\ mode = "force"
           /\ \E id \in 2..Len(remote) :
                  /\ Titled(remote, RootId, "child_page", last.key) = {id}
                  /\ \E i \in 1..Len(last.calls) :
                         last.calls[i] = Request("create", RootId, 0)
                  /\ id = Len(remote)
                  /\ get_cached(hist.before, "page_ids", PageKey(RootId, last.key)) # Some(id)
                  /\ get_cached(cache, "page_ids", PageKey(RootId, last.key)) = Some(id)
    /\ (last.op = "sync_md_to_page" /\ mode = "diff") => ContainerDeletes(last.calls) = {}

(***************************************************************************)
(* SpecAppend: append_blocks with lists of any length up to MaxAppend on a *)
(* page that holds blocks, with any one of its requests failing.           *)
(***************************************************************************)
MaxAppend == 5
\* the request that fails is among the first MaxAppendFail (0: none fails)
MaxAppendFail == 3

AppendLists == SeqsUpTo({Para(<<"a">>), Para(<<"b">>)}, MaxAppend)

InitAppend ==
    /\ remote = AdapterRemote
    /\ cache = EmptyCache
    /\ disk = EmptyCache
    /\ mode = "diff"
    /\ dry_run = FALSE
    /\ pc = "append"
    /\ last \in {[NoCall EXCEPT !.input = children] : children \in AppendLists}
    /\ hist = NoHist

\* the call is observed with the children of each of its requests as its result
AppendBlocks ==
    /\ pc = "append"
    /\ last.op = "none"
    /\ \E f \in 0..MaxAppendFail :
       \E r \in {append_blocks(World(remote, cache, f), PageId, last.input)} :
           /\ f <= Len(r.w.calls)
           /\ remote' = r.w.remote
           /\ last' = Observed("append_blocks", PageId, "", last.input,
                               Result(r.w, r.raised, r.w.sent))
           /\ hist' = [hist EXCEPT !.before = remote[PageId].children]
    /\ UNCHANGED <<cache, disk, mode, dry_run, pc>>

NextAppend == AppendBlocks

SpecAppend == InitAppend /\ [][NextAppend]_vars

Entries(blocks) == [i \in 1..Len(blocks) |-> BlockEntry(blocks[i])]

\* C24: append_blocks sends the children in requests of at most ChunkSize blocks
\* each, one request after the other, the chunks in request order making up the
\* input; ceil(n / ChunkSize) requests for n children, none for an empty list; and
\* after a request that fails no further chunk is sent.
C24_OrderedChunks ==
    last.op = "append_blocks" =>
        LET n == Len(last.input)
            chunks == last.ret
            sent == Concat(chunks)
            done == IF last.raised THEN Concat(SubSeq(chunks, 1, Len(chunks) - 1))
                    ELSE sent
        IN /\ Len(last.calls) = Len(chunks)
           /\ \A i \in 1..Len(chunks) :
                  /\ last.calls[i] = Request("append", PageId, 0)
                  /\ Len(chunks[i]) \in 1..ChunkSize
           /\ sent = SubSeq(last.input, 1, Len(sent))
           /\ remote[PageId].children = hist.before \o Entries(done)
           /\ ~last.raised =>
                  /\ Len(chunks) = (n + ChunkSize - 1) \div ChunkSize
                  /\ sent = last.input
           /\ last.raised => Len(chunks) = last.failAt
           /\ n = 0 => last.calls = <<>>

\* five children go out in three requests, the last one with one block
C24_Witness ==
    /\ last.op = "append_blocks"
    /\ ~last.raised
    /\ Len(last.input) = 2 * ChunkSize + 1
    /\ Len(last.ret) = 3
    /\ Len(last.ret[3]) = 1
    /\ remote[PageId].children = hist.before \o Entries(last.input)

(***************************************************************************)
(* SpecPaging: the four cursor loops, each run on a page with any children *)
(* or a dataset with any number of rows, no request failing.               *)
(***************************************************************************)
\* children of the page, rows of the dataset
MaxPaged == 5

RECURSIVE WithChildren(_, _)
\* page PageId gets a child of each kind, in order
WithChildren(w, kinds) ==
    IF kinds = <<>> THEN w
    ELSE Only({WithChildren(w1, Tail(kinds)) : w1 \in
                  {IF Head(kinds).type \in Containers
                   THEN create_container(w, "create", PageId, Head(kinds).type,
                                         Head(kinds).title).w
                   ELSE blocks_children_append(w, PageId, <<Para(<<"a">>)>>).w}})

RECURSIVE WithRows(_, _)
\* dataset DatasetId gets m rows
WithRows(w, m) ==
    IF m = 0 THEN w
    ELSE Only({create_database_row(w1, DatasetId, [Name |-> "N"]).w :
                  w1 \in {WithRows(w, m - 1)}})

\* the root holds page A with the children kinds and dataset B with m rows
PagedRemote(kinds, m) ==
    LET w0 == World(EmptyRemote, EmptyCache, 0)
        w1 == create_container(w0, "create", RootId, "child_page", "A").w
        w2 == create_container(w1, "create_db", RootId, "child_database", "B").w
    IN WithRows(WithChildren(w2, kinds), m).remote

InitPaging ==
    /\ remote \in {PagedRemote(kinds, m) : kinds \in SeqsUpTo(OldKinds, MaxPaged),
                                           m \in 0..MaxPaged}
    /\ cache = EmptyCache
    /\ disk = EmptyCache
    /\ mode = "diff"
    /\ dry_run = FALSE
    /\ pc = "paging"
    /\ last = NoCall
    /\ hist = NoHist

\* the call's effect on the remote store; the listing it started from is kept
CommitPaging(op, id, key, r) ==
    /\ last.op = "none"
    /\ remote' = r.w.remote
    /\ last' = Observed(op, id, key, <<>>, r)
    /\ hist' = [hist EXCEPT !.before = remote[id].children]
    /\ UNCHANGED <<cache, disk, mode, dry_run, pc>>

ScanForTitle ==
    /\ pc = "paging"
    /\ \E title \in Titles :
       \E r \in {get_child_block_by_title(World(remote, cache, 0), PageId, title)} :
           CommitPaging("get_child_block_by_title", PageId, title, r)

ScanAndClear ==
    /\ pc = "paging"
    /\ \E r \in {clear_page_blocks(World(remote, cache, 0), PageId)} :
           CommitPaging("clear_page_blocks", PageId, "", r)

ScanRows ==
    /\ pc = "paging"
    /\ \E r \in {query_data_source(World(remote, cache, 0), DatasetId)} :
           CommitPaging("query_data_source", DatasetId, "", r)

ScanAndDelete ==
    /\ pc = "paging"
    /\ \E r \in {delete_all_children(World(remote, cache, 0), PageId)} :
           CommitPaging("delete_all_children", PageId, "", r)

NextPaging == ScanForTitle \/ ScanAndClear \/ ScanRows \/ ScanAndDelete

SpecPaging == InitPaging /\ [][NextPaging]_vars

\* the cursors of the listing requests of a call, in order
Cursors(calls) ==
    LET reads == SelectSeq(calls, LAMBDA c : c.op \in {"list", "query"})
    IN [i \in 1..Len(reads) |-> reads[i].cursor]

\* the number of pages of a listing of n entries (an empty listing has one page)
PageCount(n) == IF n = 0 THEN 1 ELSE (n + PageSize - 1) \div PageSize

\* C25: a cursor loop asks for the pages of the listing in order, each once, from
\* the first page, and makes its last request for the page that has has_more false
\* (the lookup by title also stops at a match); query_data_source returns the rows
\* of the dataset, each once.
C25_PaginationTerminates ==
    last.op # "none" =>
        LET cursors == Cursors(last.calls)
            n == Len(hist.before)
        IN /\ ~last.raised
           /\ cursors # <<>>
           /\ \A i \in 1..Len(cursors) : cursors[i] = (i - 1) * PageSize
           /\ Len(cursors) <= PageCount(n)
           /\ (last.op # "get_child_block_by_title" \/ last.ret = None) =>
                  /\ Len(cursors) = PageCount(n)
                  /\ ~ListPage(hist.before, cursors[Len(cursors)]).has_more
           /\ last.op = "query_data_source" => last.ret = hist.before

\* a dataset of five rows is read in three requests
C25_Witness ==
    /\ last.op = "query_data_source"
    /\ Len(hist.before) = 2 * PageSize + 1
    /\ Cursors(last.calls) = <<0, PageSize, 2 * PageSize>>
    /\ last.ret = hist.before

(***************************************************************************)
(* The story renderer (render.py) with the styles of its blocks.  A text   *)
(* is the sequence of its stripped lines; a line is given by the first     *)
(* test of the loop it passes and the texts that test takes from it:       *)
(*   "blank"      nothing left after strip()                               *)
(*   "heading"    title_re matches: level = number of #, text              *)
(*   "speaker"    speaker_re matches: text = the name, rest = what follows *)
(*   "stage"      wrapped in a pair of brackets: text = the line           *)
(*   "narration"  starts with one *: text = the line without its asterisks *)
(*   "plain"      any other line: text = the line                          *)
(* Texts are shorter than max_len, so _split_text gives them back whole.   *)
(* render_story_blocks above is this renderer on plain lines, its blocks   *)
(* without their annotations.                                              *)
(***************************************************************************)
StoryLine(kind, level, text, rest) == [kind |-> kind, level |-> level, text |-> text, rest |-> rest]

\* a block with the annotations _rt gives its text
StyledBlock(t, text, bold, italic, color) ==
    [type |-> t, text |-> text, bold |-> bold, italic |-> italic, color |-> color]

\* add_paragraph(text, italic=.., color=..): no block for an empty text
add_paragraph(blocks, text, italic, color) ==
    IF text = "" THEN blocks
    ELSE Append(blocks, StyledBlock("paragraph", text, FALSE, italic, color))

\* the state of the loop of render_story_blocks
StoryState(blocks, seen_dialogue) == [blocks |-> blocks, seen_dialogue |-> seen_dialogue]

\* heading_{level}
HeadingType(level) ==
    CASE Min(level, 3) = 1 -> "heading_1"
      [] Min(level, 3) = 2 -> "heading_2"
      [] OTHER -> "heading_3"

\* a loop body that does not note a speaker line
story_line_unseen(st, line) ==
    CASE line.kind = "blank" -> st
      [] line.kind = "heading" ->
            [st EXCEPT !.blocks = Append(@, StyledBlock(HeadingType(line.level), line.text,
                                                        TRUE, FALSE, "default"))]
      [] line.kind = "speaker" ->
            [st EXCEPT !.blocks = add_paragraph(
                           Append(@, StyledBlock("heading_3", line.text, TRUE, FALSE, "blue")),
                           line.rest, FALSE, "default")]
      [] line.kind \in {"stage", "narration"} ->
            [st EXCEPT !.blocks = add_paragraph(@, line.text, TRUE, "gray")]
      [] OTHER ->
            IF ~st.seen_dialogue
            THEN [st EXCEPT !.blocks = add_paragraph(@, line.text, TRUE, "gray")]
            ELSE [st EXCEPT !.blocks = add_paragraph(@, line.text, FALSE, "default")]

\* lines 67-119: one line of the text
story_line(st, line) ==
    CASE line.kind = "blank" -> st
      [] line.kind = "heading" ->
            [st EXCEPT !.blocks = Append(@, StyledBlock(HeadingType(line.level), line.text,
                                                        TRUE, FALSE, "default"))]
      [] line.kind = "speaker" ->
            [st EXCEPT !.seen_dialogue = TRUE,
                       !.blocks = add_paragraph(
                           Append(@, StyledBlock("heading_3", line.text, TRUE, FALSE, "blue")),
                           line.rest, FALSE, "default")]
      [] line.kind = "stage" ->
            [st EXCEPT !.blocks = add_paragraph(@, line.text, TRUE, "gray")]
      [] line.kind = "narration" ->
            [st EXCEPT !.blocks = add_paragraph(@, line.text, TRUE, "gray")]
      [] OTHER ->
            IF ~st.seen_dialogue
            THEN [st EXCEPT !.blocks = add_paragraph(@, line.text, TRUE, "gray")]
            ELSE [st EXCEPT !.blocks = add_paragraph(@, line.text, FALSE, "default")]

RECURSIVE story_lines(_, _)
story_lines(st, lines) ==
    IF lines = <<>> THEN st
    ELSE Only({story_lines(st2, Tail(lines)) : st2 \in {story_line(st, Head(lines))}})

\* render_story_blocks(content) with the styles of the blocks
render_story(lines) == story_lines(StoryState(<<>>, FALSE), lines).blocks

(***************************************************************************)
(* SpecStory: render_story_blocks over texts of up to MaxLines lines of    *)
(* every kind.                                                             *)
(***************************************************************************)
MaxLines == 4

StoryLines ==
    { StoryLine("blank", 0, "", ""),
      StoryLine("heading", 1, "t", ""),
      StoryLine("heading", 3, "t", ""),
      StoryLine("speaker", 0, "n", ""),
      StoryLine("speaker", 0, "n", "hi"),
      StoryLine("stage", 0, "(s)", ""),
      StoryLine("narration", 0, "m", ""),
      StoryLine("narration", 0, "", ""),
      StoryLine("plain", 0, "p", ""),
      StoryLine("plain", 0, "q", "") }

InitStory ==
    /\ remote = EmptyRemote
    /\ cache = EmptyCache
    /\ disk = EmptyCache
    /\ mode = "diff"
    /\ dry_run = FALSE
    /\ pc = "story"
    /\ last \in {[NoCall EXCEPT !.input = lines] : lines \in SeqsUpTo(StoryLines, MaxLines)}
    /\ hist = NoHist

RenderStoryBlocks ==
    /\ pc = "story"
    /\ last.op = "none"
    /\ \E blocks \in {render_story(last.input)} :
           last' = [last EXCEPT !.op = "render_story_blocks", !.ret = blocks]
    /\ UNCHANGED <<remote, cache, disk, mode, dry_run, pc, hist>>

NextStory == RenderStoryBlocks

SpecStory == InitStory /\ [][NextStory]_vars

\* a speaker line comes before line i
SpeakerBefore(lines, i) == \E j \in 1..(i - 1) : lines[j].kind = "speaker"

\* the blocks line i of the text is to give
BlocksOfLine(lines, i) ==
    LET line == lines[i]
        gray == IF line.text = "" THEN <<>>
                ELSE <<StyledBlock("paragraph", line.text, FALSE, TRUE, "gray")>>
    IN CASE line.kind = "blank" -> <<>>
         [] line.kind = "heading" ->
               <<StyledBlock(HeadingType(line.level), line.text, TRUE, FALSE, "default")>>
         [] line.kind = "speaker" ->
               <<StyledBlock("heading_3", line.text, TRUE, FALSE, "blue")>> \o
               (IF line.rest = "" THEN <<>>
                ELSE <<StyledBlock("paragraph", line.rest, FALSE, FALSE, "default")>>)
         [] line.kind \in {"stage", "narration"} -> gray
         [] OTHER ->
               IF SpeakerBefore(lines, i)
               THEN <<StyledBlock("paragraph", line.text, FALSE, FALSE, "default")>>
               ELSE gray

\* C27: a line that is no heading, speaker line, stage direction or narration gives
\* a gray italic paragraph if no speaker line comes before it and a plain paragraph
\* if one does; a blank line gives no block; the blocks come in the order of the
\* lines.
C27_PreDialogueState ==
    last.op = "render_story_blocks" =>
        last.ret = Concat([i \in 1..Len(last.input) |-> BlocksOfLine(last.input, i)])

\* a plain line before the first speaker line and one after it
C27_Witness ==
    /\ last.op = "render_story_blocks"
    /\ last.input = << StoryLine("plain", 0, "p", ""), StoryLine("blank", 0, "", ""),
                       StoryLine("speaker", 0, "n", "hi"), StoryLine("plain", 0, "p", "") >>
    /\ last.ret = << StyledBlock("paragraph", "p", FALSE, TRUE, "gray"),
                     StyledBlock("heading_3", "n", TRUE, FALSE, "blue"),
                     StyledBlock("paragraph", "hi", FALSE, FALSE, "default"),
                     StyledBlock("paragraph", "p", FALSE, FALSE, "default") >>

(***************************************************************************)
(* The cache against the remote page in SpecRewrite: no one but the calls  *)
(* of the model writes to the page.                                        *)
(***************************************************************************)
\* the blocks of a listing, its child pages and databases left out
ContentOf(listing) == SelectSeq(listing, LAMBDA e : ~IsContainer(e))

\* C28: when sync_page_blocks, not in dry run, returns False (the unit is unchanged)
\* for a page and a cache key, the blocks on the page are the blocks it was given.
C28_CacheRemoteConsistent ==
    (last.op = "sync_page_blocks" /\ ~last.raised /\ last.ret = FALSE) =>
        ContentOf(remote[last.id].children) = Entries(last.input)

(***************************************************************************)
(* The keys of the rows in SpecDb: the dataset starts without rows and is  *)
(* written by the syncs of the model only.                                 *)
(***************************************************************************)
\* the property that holds the key of a row of the dataset synced
TitleProp == IF pc = "cast" THEN "Name" ELSE "Label"

\* C29: the dataset holds at most one row for a key (the name of a cast record, the
\* label of a voice record), whatever records the syncs so far were given.
C29_KeyUnique ==
    \A id \in 1..Len(remote) :
        remote[id].type = "child_database" =>
            \A i, j \in 1..Len(remote[id].children) :
                i # j => rich_text_plain(remote[id].children[i].content, TitleProp)
                             # rich_text_plain(remote[id].children[j].content, TitleProp)

====
